---- MODULE Spec2Model ----
(***************************************************************************)
(* Model of l2tdevtools/build_helper.py: the build helper factory, the     *)
(* sixteen packaging strategies and their four lifecycle operations        *)
(* (CheckBuildDependencies, CheckBuildRequired, Build, Clean).             *)
(*                                                                         *)
(* Strings that the code formats, globs or matches (project names,         *)
(* versions, file names) are sequences of one-character strings, so that   *)
(* str.format, glob.glob and re.match are computed, not assumed.  Class,   *)
(* command and key names that the code only compares are TLA+ strings.     *)
(***************************************************************************)
EXTENDS Integers, Sequences, FiniteSets, TLC

VARIABLES
  project,   \* the ProjectDefinition record the helper reads
  source,    \* the SourceHelper: project_name and GetProjectVersion()
  host,      \* platform.machine(), os.environ, files of the tools directory
  helper,    \* the build helper NewBuildHelper constructed, or NoHelper
  fs,        \* names of the files in the caller's working directory
  cwd,       \* the process working directory, relative to the caller's
  last       \* what the last operation did and returned

vars == <<project, source, host, helper, fs, cwd, last>>

(***************************************************************************)
(* Character strings.                                                      *)
(***************************************************************************)
s_empty == <<>>
s_amd64 == <<"a","m","d","6","4">>
s_i386 == <<"i","3","8","6">>
s_i686 == <<"i","6","8","6">>
s_x86_64 == <<"x","8","6","_","6","4">>
s_x86 == <<"x","8","6">>
s_AMD64 == <<"A","M","D","6","4">>
s_all == <<"a","l","l">>
s_source == <<"s","o","u","r","c","e">>
s_trusty == <<"t","r","u","s","t","y">>
s_ppa1 == <<"p","p","a","1">>
s_win32 == <<"w","i","n","3","2">>
s_win_amd64 == <<"w","i","n","-","a","m","d","6","4">>
s_noarch == <<"n","o","a","r","c","h">>
s_python_ == <<"p","y","t","h","o","n","-">>
s_python3_ == <<"p","y","t","h","o","n","3","-">>
s_epoch == <<"1","!">>

s_dot == <<".">>
s_dash == <<"-">>
s_us == <<"_">>
s_slash == <<"/">>

\* str.startswith and str.endswith
StartsWith(s, prefix) ==
  Len(prefix) <= Len(s) /\ SubSeq(s, 1, Len(prefix)) = prefix
EndsWith(s, suffix) ==
  Len(suffix) <= Len(s) /\ SubSeq(s, Len(s) - Len(suffix) + 1, Len(s)) = suffix

\* s[n:], the slice from 0-based index n
SliceFrom(s, n) == IF n >= Len(s) THEN <<>> ELSE SubSeq(s, n + 1, Len(s))

\* c in s
Contains(s, c) == \E i \in 1..Len(s) : s[i] = c

\* the 1-based positions of character c in s
Positions(s, c) == {i \in 1..Len(s) : s[i] = c}

\* len(s.split(c))
SplitCount(s, c) == Cardinality(Positions(s, c)) + 1

\* s.rpartition(c)[0]: the part before the last c (s has a c)
BeforeLast(s, c) ==
  LET p == CHOOSE i \in Positions(s, c) : \A j \in Positions(s, c) : j <= i
  IN  SubSeq(s, 1, p - 1)

\* s.partition(c)[0]: the part before the first c, all of s without a c
BeforeFirst(s, c) ==
  IF Contains(s, c)
    THEN SubSeq(s, 1, (CHOOSE i \in Positions(s, c) : \A j \in Positions(s, c) : i <= j) - 1)
    ELSE s

\* s.replace(a, b) for single characters
Replace(s, a, b) == [i \in 1..Len(s) |-> IF s[i] = a THEN b ELSE s[i]]

\* os.path.basename
Basename(path) ==
  IF Contains(path, "/") THEN SliceFrom(path, CHOOSE i \in Positions(path, "/") :
                                               \A j \in Positions(path, "/") : j <= i)
  ELSE path

(***************************************************************************)
(* glob.glob and re.match on the patterns the helpers format.  A pattern   *)
(* is compiled from its text to one token per character: a literal         *)
(* character, any one character, any run of characters, a character set,   *)
(* or nothing for a character that is part of the token before it.         *)
(***************************************************************************)
Digits == <<"0","1","2","3","4","5","6","7","8","9">>
DigitIndex(c) == CHOOSE i \in 1..10 : Digits[i] = c

Lit(c) == [k |-> "lit", c |-> c, cs |-> {}]
AnyOne == [k |-> "any", c |-> "", cs |-> {}]
AnyRun == [k |-> "run", c |-> "", cs |-> {}]
OneOf(cs) == [k |-> "set", c |-> "", cs |-> cs]
\* The token of a pattern character that belongs to the token before it.
Skip == [k |-> "skip", c |-> "", cs |-> {}]

\* The characters of a bracket expression's body: "1-9" is a range of
\* digits, anything else the characters themselves ("-_").
BracketSet(body) ==
  IF Len(body) = 3 /\ body[2] = "-"
    THEN {Digits[i] : i \in DigitIndex(body[1])..DigitIndex(body[3])}
    ELSE {body[i] : i \in 1..Len(body)}

\* The position of the "]" closing the bracket opened at position i.
BracketEnd(p, i) == CHOOSE j \in (i + 1)..Len(p) :
                      p[j] = "]" /\ \A m \in (i + 1)..(j - 1) : p[m] # "]"

\* Whether position i of pattern p lies inside a bracket expression, after
\* its "[" and up to its "]".
InBracket(p, i) ==
  \E k \in 1..(i - 1) :
    /\ p[k] = "["
    /\ \E j \in i..Len(p) : p[j] = "]"
    /\ \A m \in (k + 1)..(i - 1) : p[m] # "]"

\* Whether a bracket expression opens at position i of pattern p.
OpensBracket(p, i) ==
  p[i] = "[" /\ ~InBracket(p, i) /\ \E j \in (i + 1)..Len(p) : p[j] = "]"

\* fnmatch.translate: "*" any run, "?" any one, "[...]" a set.  The token
\* at a position inside a bracket expression is Skip.
GlobCompile(p) ==
  [i \in 1..Len(p) |->
     IF InBracket(p, i) THEN Skip
     ELSE IF p[i] = "*" THEN AnyRun
     ELSE IF p[i] = "?" THEN AnyOne
     ELSE IF OpensBracket(p, i)
       THEN OneOf(BracketSet(SubSeq(p, i + 1, BracketEnd(p, i) - 1)))
     ELSE Lit(p[i])]

\* re.compile on the patterns of this module: "^" anchors (re.match is
\* anchored at the start anyway), ".*" any run, "." any one, "[...]" a
\* set, every other character of the model's alphabet itself.  The token
\* at "^", at the "*" of ".*" and inside a bracket expression is Skip.
RegexCompile(p) ==
  LET Starred(i) == i < Len(p) /\ p[i] = "." /\ p[i + 1] = "*" /\ ~InBracket(p, i)
  IN  [i \in 1..Len(p) |->
         IF p[i] = "^" \/ InBracket(p, i) \/ (i > 1 /\ Starred(i - 1)) THEN Skip
         ELSE IF Starred(i) THEN AnyRun
         ELSE IF p[i] = "." THEN AnyOne
         ELSE IF OpensBracket(p, i)
           THEN OneOf(BracketSet(SubSeq(p, i + 1, BracketEnd(p, i) - 1)))
         ELSE Lit(p[i])]

\* Whether tokens t[i..] match s[j..]: the whole rest of s when full, a
\* prefix of it otherwise.  A run does not cross "/" when perComponent
\* (glob matches one path component at a time).
RECURSIVE TokensMatch(_, _, _, _, _, _)
TokensMatch(t, s, i, j, full, perComponent) ==
  IF i > Len(t) THEN (~full \/ j > Len(s))
  ELSE IF t[i].k = "skip" THEN TokensMatch(t, s, i + 1, j, full, perComponent)
  ELSE IF t[i].k = "run"
    THEN \E n \in j..(Len(s) + 1) :
           /\ \A m \in j..(n - 1) : ~(perComponent /\ s[m] = "/")
           /\ TokensMatch(t, s, i + 1, n, full, perComponent)
  ELSE /\ j <= Len(s)
       /\ CASE t[i].k = "lit" -> s[j] = t[i].c
            [] t[i].k = "any" -> ~(perComponent /\ s[j] = "/")
            [] t[i].k = "set" -> s[j] \in t[i].cs
       /\ TokensMatch(t, s, i + 1, j + 1, full, perComponent)

\* filename in glob.glob(pattern), for a file that exists
GlobMatches(pattern, filename) ==
  TokensMatch(GlobCompile(pattern), filename, 1, 1, TRUE, TRUE)

\* re.compile(pattern).match(filename) is not None
RegexMatches(pattern, filename) ==
  TokensMatch(RegexCompile(pattern), filename, 1, 1, FALSE, FALSE)

(***************************************************************************)
(* BuildHelperFactory: the two strategy tables and NewBuildHelper.         *)
(***************************************************************************)
NoClass == "None"
NoHelper == [cls |-> NoClass, architecture |-> s_empty, distribution |-> s_empty,
             version_suffix |-> s_empty, version |-> ""]

BuildTargets ==
  {"dpkg", "dpkg-source", "msi", "osc", "pkg", "rpm", "source", "srpm"}

\* BuildHelperFactory._CONFIGURE_MAKE_BUILD_HELPER_CLASSES
ConfigureMakeBuildHelperClasses ==
  [t \in BuildTargets |->
     CASE t = "dpkg" -> "ConfigureMakeDPKGBuildHelper"
       [] t = "dpkg-source" -> "ConfigureMakeSourceDPKGBuildHelper"
       [] t = "msi" -> "ConfigureMakeMSIBuildHelper"
       [] t = "osc" -> "ConfigureMakeOSCBuildHelper"
       [] t = "pkg" -> "ConfigureMakePKGBuildHelper"
       [] t = "rpm" -> "ConfigureMakeRPMBuildHelper"
       [] t = "source" -> "ConfigureMakeSourceBuildHelper"
       [] t = "srpm" -> "ConfigureMakeSRPMBuildHelper"]

\* BuildHelperFactory._SETUP_PY_BUILD_HELPER_CLASSES
SetupPyBuildHelperClasses ==
  [t \in BuildTargets |->
     CASE t = "dpkg" -> "SetupPyDPKGBuildHelper"
       [] t = "dpkg-source" -> "SetupPySourceDPKGBuildHelper"
       [] t = "msi" -> "SetupPyMSIBuildHelper"
       [] t = "osc" -> "SetupPyOSCBuildHelper"
       [] t = "pkg" -> "SetupPyPKGBuildHelper"
       [] t = "rpm" -> "SetupPyRPMBuildHelper"
       [] t = "source" -> "SetupPySourceBuildHelper"
       [] t = "srpm" -> "SetupPySRPMBuildHelper"]

HelperClasses ==
  {ConfigureMakeBuildHelperClasses[t] : t \in BuildTargets} \cup
  {SetupPyBuildHelperClasses[t] : t \in BuildTargets}

\* dict.get(build_target, None) on one of the two tables
TableGet(table, build_target) ==
  IF build_target \in DOMAIN table THEN table[build_target] ELSE NoClass

\* A mutant of SelectClass: an unrecognized build system falls through to
\* the setup_py table.
SelectClassFallsThrough(build_system, build_target) ==
  IF build_system = "configure_make"
    THEN TableGet(ConfigureMakeBuildHelperClasses, build_target)
    ELSE TableGet(SetupPyBuildHelperClasses, build_target)

\* The class NewBuildHelper selects (lines 3391-3400), NoClass for None.
SelectClass(build_system, build_target) ==
  IF build_system = "configure_make"
    THEN TableGet(ConfigureMakeBuildHelperClasses, build_target)
  ELSE IF build_system = "setup_py"
    THEN TableGet(SetupPyBuildHelperClasses, build_target)
  ELSE NoClass

(***************************************************************************)
(* The constructors.                                                       *)
(***************************************************************************)
\* The environment variables ConfigureMakeMSIBuildHelper.__init__ tests, in
\* the order it tests them, with the Visual Studio version each selects.
VSVariables ==
  << [name |-> "VS150COMNTOOLS", version |-> "2017"],
     [name |-> "VS140COMNTOOLS", version |-> "2015"],
     [name |-> "VS120COMNTOOLS", version |-> "2013"],
     [name |-> "VS110COMNTOOLS", version |-> "2012"],
     [name |-> "VS100COMNTOOLS", version |-> "2010"],
     [name |-> "VS90COMNTOOLS", version |-> "2008"],
     [name |-> "VCINSTALLDIR", version |-> "python"] >>

VSNames == {VSVariables[i].name : i \in DOMAIN VSVariables}

\* The version the if/elif chain of lines 1021-1045 selects from the
\* environment, "" when it reaches the else branch (RuntimeError).
VisualStudioVersion(environ) ==
  LET present == {i \in DOMAIN VSVariables : VSVariables[i].name \in DOMAIN environ}
  IN  IF present = {} THEN ""
      ELSE VSVariables[CHOOSE i \in present : \A j \in present : i <= j].version

\* A mutant of DPKGArchitecture: the machine name is kept as it is.
DPKGArchitectureUnchanged(machine) == machine

\* DPKG architecture of ConfigureMakeDPKGBuildHelper.__init__
DPKGArchitecture(machine) ==
  IF machine = s_i686 THEN s_i386
  ELSE IF machine = s_x86_64 THEN s_amd64
  ELSE machine

\* MSIBuildHelper.__init__
MSIArchitecture(machine) ==
  IF machine = s_x86 THEN s_win32
  ELSE IF machine = s_AMD64 THEN s_win_amd64
  ELSE machine

IsMSIClass(cls) == cls \in {"ConfigureMakeMSIBuildHelper", "SetupPyMSIBuildHelper"}
IsSourceDPKGClass(cls) ==
  cls \in {"ConfigureMakeSourceDPKGBuildHelper", "SetupPySourceDPKGBuildHelper"}
IsDPKGClass(cls) ==
  cls \in {"ConfigureMakeDPKGBuildHelper", "SetupPyDPKGBuildHelper"} \/ IsSourceDPKGClass(cls)
IsRPMClass(cls) == cls \in {"ConfigureMakeRPMBuildHelper", "SetupPyRPMBuildHelper"}
IsSRPMClass(cls) == cls \in {"ConfigureMakeSRPMBuildHelper", "SetupPySRPMBuildHelper"}
IsOSCClass(cls) == cls \in {"ConfigureMakeOSCBuildHelper", "SetupPyOSCBuildHelper"}
IsPKGClass(cls) == cls \in {"ConfigureMakePKGBuildHelper", "SetupPyPKGBuildHelper"}
IsSourceClass(cls) == cls \in {"ConfigureMakeSourceBuildHelper", "SetupPySourceBuildHelper"}

\* The architecture attribute each constructor computes.
HelperArchitecture(cls, pd, hst) ==
  CASE cls = "ConfigureMakeDPKGBuildHelper" -> DPKGArchitecture(hst.machine)
    [] cls = "SetupPyDPKGBuildHelper" ->
         IF ~pd.architecture_dependent THEN s_all ELSE DPKGArchitecture(hst.machine)
    [] IsSourceDPKGClass(cls) -> s_source
    [] IsMSIClass(cls) -> MSIArchitecture(hst.machine)
    [] cls \in {"SetupPyRPMBuildHelper", "SetupPySRPMBuildHelper"} ->
         IF ~pd.architecture_dependent THEN s_noarch ELSE hst.machine
    [] cls \in {"ConfigureMakeRPMBuildHelper", "ConfigureMakeSRPMBuildHelper"} ->
         hst.machine
    [] OTHER -> s_empty

\* A mutant of ConstructorRaises: the constructor never raises.
ConstructorNeverRaises(cls, hst) == FALSE

\* ConfigureMakeMSIBuildHelper.__init__ raises RuntimeError when no Visual
\* Studio variable is set, or when msvscpp-convert.py is missing and the
\* version is not 2008; no other constructor raises.
ConstructorRaises(cls, hst) ==
  /\ cls = "ConfigureMakeMSIBuildHelper"
  /\ \/ VisualStudioVersion(hst.environ) = ""
     \/ /\ VisualStudioVersion(hst.environ) # "2008"
        /\ ~hst.msvscpp_convert_exists

\* The helper object a constructor that returns leaves behind.
Construct(cls, pd, hst) ==
  [cls |-> cls,
   architecture |-> HelperArchitecture(cls, pd, hst),
   distribution |-> IF IsSourceDPKGClass(cls) THEN s_trusty ELSE s_empty,
   version_suffix |-> IF IsSourceDPKGClass(cls) THEN s_ppa1 ELSE s_empty,
   version |-> IF cls = "ConfigureMakeMSIBuildHelper"
                 THEN VisualStudioVersion(hst.environ) ELSE ""]

NoOp == [op |-> "none"]

\* BuildHelperFactory.NewBuildHelper(project_definition, build_target, path)
NewBuildHelper(build_target) ==
  LET cls == SelectClass(project.build_system, build_target)
      raises == cls # NoClass /\ ConstructorRaises(cls, host)
  IN  /\ helper = NoHelper
      /\ helper' = IF cls = NoClass \/ raises THEN NoHelper
                   ELSE Construct(cls, project, host)
      /\ last' = [op |-> "NewBuildHelper",
                  build_target |-> build_target,
                  constructor_called |-> (cls # NoClass),
                  result |-> IF cls = NoClass THEN "None"
                             ELSE IF raises THEN "raise" ELSE "helper",
                  raised |-> raises]
      /\ UNCHANGED <<project, source, host, fs, cwd>>


(***************************************************************************)
(* File names: the project name and version each strategy puts in them.    *)
(***************************************************************************)
s_home == <<"/","r","o","o","t">>
s_OSC_PROJECT == <<"h","o","m","e",":","j","o","a","c","h","i","m","m","e","t","z",":","t","e","s","t","i","n","g">>
s_dfvfs == <<"d","f","v","f","s">>
s_coverage == <<"c","o","v","e","r","a","g","e">>
s_bencode == <<"b","e","n","c","o","d","e">>
s_dateutil == <<"d","a","t","e","u","t","i","l">>

\* A mutant of RemoveEpoch: the version is used as it is.
RemoveEpochKeepsVersion(project_version) == project_version

\* "Remove setuptools epoch": lines 668-670, 811-813 and 2683-2685
RemoveEpoch(project_version) ==
  IF project_version # <<>> /\ StartsWith(project_version, s_epoch)
    THEN SliceFrom(project_version, 2)
    ELSE project_version

\* The project name of the two setup.py dpkg helpers: the given package
\* name, or the source helper's name with "python-" in front unless it
\* already starts with it.
PythonPrefixed(package_name, project_name) ==
  IF package_name # <<>> THEN package_name
  ELSE IF ~StartsWith(project_name, s_python_) THEN s_python_ \o project_name
  ELSE project_name

\* _GetFilenameSafeProjectInformation of the class of helper h: <<name, version>>.
\* The classes that do not define it use the source helper's name and version.
GetFilenameSafeProjectInformation(h, pd, src) ==
  CASE h.cls = "SetupPyDPKGBuildHelper" ->
         <<PythonPrefixed(pd.dpkg_name, src.project_name), RemoveEpoch(src.version)>>
    [] h.cls = "SetupPySourceDPKGBuildHelper" ->
         <<PythonPrefixed(pd.dpkg_source_name, src.project_name),
           RemoveEpoch(src.version)>>
    [] h.cls = "SetupPyMSIBuildHelper" ->
         <<IF pd.setup_name # <<>> THEN pd.setup_name ELSE src.project_name,
           IF src.project_name = s_dfvfs THEN src.version \o <<".","1">> ELSE src.version>>
    [] IsRPMClass(h.cls) \/ IsSRPMClass(h.cls) ->
         <<IF pd.setup_name # <<>> /\ src.project_name \notin {s_bencode, s_dateutil}
             THEN pd.setup_name ELSE src.project_name,
           Replace(RemoveEpoch(src.version), "-", "_")>>
    [] OTHER -> <<src.project_name, src.version>>

\* The MSI version of SetupPyMSIBuildHelper.CheckBuildRequired and Clean:
\* one if/elif chain, so at most one of the three rules is applied.
MSIVersion(project_version) ==
  IF ~Contains(project_version, ".") THEN project_version \o <<".","1">>
  ELSE IF SplitCount(project_version, ".") = 4 THEN BeforeLast(project_version, ".")
  ELSE IF Contains(project_version, "-") THEN BeforeLast(project_version, "-")
  ELSE project_version

\* A suffix that is "-py2.7" for every project
MSICheckSuffixAlways(pd, project_name) == <<"-","p","y","2",".","7">>

\* The "-py2.7" suffix of SetupPyMSIBuildHelper.CheckBuildRequired
MSICheckSuffix(pd, project_name) ==
  IF pd.architecture_dependent /\ project_name # s_coverage THEN <<"-","p","y","2",".","7">> ELSE <<>>

\* The "-py2.7" suffix of SetupPyMSIBuildHelper.Clean
MSICleanSuffix(pd) == IF pd.architecture_dependent THEN <<"-","p","y","2",".","7">> ELSE <<>>

\* The path whose existence CheckBuildRequired tests, <<>> for the classes
\* that inherit BuildHelper.CheckBuildRequired (which tests nothing).
TestedFilename(h, pd, src) ==
  LET info == GetFilenameSafeProjectInformation(h, pd, src)
      name == info[1]
      version == info[2]
  IN  CASE h.cls \in {"ConfigureMakeDPKGBuildHelper", "SetupPyDPKGBuildHelper"} ->
             name \o s_us \o version \o <<"-","1","_">> \o h.architecture \o <<".","d","e","b">>
        [] IsSourceDPKGClass(h.cls) ->
             name \o s_us \o version \o <<"-","1">> \o h.version_suffix \o <<"~">>
               \o h.distribution \o s_us \o h.architecture \o <<".","c","h","a","n","g","e","s">>
        [] h.cls = "ConfigureMakeMSIBuildHelper" ->
             name \o <<"-","p","y","t","h","o","n","-">> \o version \o <<".","1",".">> \o h.architecture
               \o <<"-","p","y","2",".","7",".","m","s","i">>
        [] h.cls = "SetupPyMSIBuildHelper" ->
             name \o s_dash \o MSIVersion(version) \o s_dot \o h.architecture
               \o MSICheckSuffix(pd, name) \o <<".","m","s","i">>
        [] IsOSCClass(h.cls) ->
             s_OSC_PROJECT \o s_slash \o name \o s_slash
               \o name \o s_dash \o version \o <<".","t","a","r",".","g","z">>
        [] IsPKGClass(h.cls) -> name \o s_dash \o version \o <<".","d","m","g">>
        [] IsRPMClass(h.cls) ->
             name \o s_dash \o version \o <<"-","1",".">> \o h.architecture \o <<".","r","p","m">>
        [] IsSRPMClass(h.cls) -> name \o s_dash \o version \o <<"-","1",".","s","r","c",".","r","p","m">>
        [] OTHER -> <<>>

\* The version as it appears in the tested file name.
FilenameVersion(h, pd, src) ==
  LET version == GetFilenameSafeProjectInformation(h, pd, src)[2]
  IN  IF h.cls = "SetupPyMSIBuildHelper" THEN MSIVersion(version) ELSE version

\* The text a relative path gets in front when the working directory is
\* cwd, a sequence of directory names below the directory the program was
\* started in (a name that starts with "/" is an absolute path).
RECURSIVE CwdPrefix(_)
CwdPrefix(c) == IF c = <<>> THEN <<>> ELSE Head(c) \o s_slash \o CwdPrefix(Tail(c))

IsAbsolute(f) == f # <<>> /\ (f[1] = "/" \/ (Len(f) >= 2 /\ f[2] = ":"))

\* The paths of the files `files` as seen from the working directory c.
View(files, c) ==
  {f \in files : IsAbsolute(f)}
    \cup {SliceFrom(f, Len(CwdPrefix(c))) : f \in {g \in files : StartsWith(g, CwdPrefix(c))}}

\* The file that path f names when the working directory is c.
Resolve(f, c) == IF IsAbsolute(f) THEN f ELSE CwdPrefix(c) \o f

\* A check that never asks for a build
BuildRequiredNever(h, pd, src, files) == FALSE

\* What CheckBuildRequired returns on the files `files`.
BuildRequired(h, pd, src, files) ==
  IF IsSourceClass(h.cls) THEN TRUE ELSE TestedFilename(h, pd, src) \notin files

\* CheckBuildRequired(source_helper_object); after_build records that the
\* call follows a Build that returned True.
CheckBuildRequired ==
  /\ helper # NoHelper
  /\ last' = [op |-> "CheckBuildRequired",
              filename |-> TestedFilename(helper, project, source),
              version |-> FilenameVersion(helper, project, source),
              result |-> BuildRequired(helper, project, source, View(fs, cwd)),
              raised |-> FALSE,
              after_build |-> (last.op = "Build" /\ last.result = "True")]
  /\ UNCHANGED <<project, source, host, helper, fs, cwd>>


(***************************************************************************)
(* Clean: every removal loop is a pass, the glob it lists and the          *)
(* "filenames to ignore" expression it matches the listed names against.   *)
(***************************************************************************)
Pass(filenames_glob, filenames_to_ignore) ==
  [glob |-> filenames_glob, ignore |-> filenames_to_ignore]

\* for filename in glob.glob(filenames_glob):
\*   if not filenames_to_ignore.match(filename): os.remove(filename)
RemovePass(files, pass) ==
  files \ {f \in files : GlobMatches(pass.glob, f) /\ ~RegexMatches(pass.ignore, f)}

\* The passes of a sequence, one after the other.
RECURSIVE RemovePasses(_, _)
RemovePasses(files, passes) ==
  IF passes = <<>> THEN files
  ELSE RemovePasses(RemovePass(files, Head(passes)), Tail(passes))

\* DPKGBuildHelper._RemoveOlderDPKGPackages
RemoveOlderDPKGPackages(h, project_name, project_version) ==
  LET filenames_to_ignore == <<"^">> \o project_name \o <<"[","-","_","]",".","*">> \o project_version
  IN  << Pass(project_name \o <<"[","-","_","]","*","-","[","1","-","9","]","_">> \o h.architecture \o <<".","*">>,
              filenames_to_ignore),
         Pass(project_name \o <<"[","-","_","]","*","-","[","1","-","9","]",".","*">>, filenames_to_ignore) >>

\* DPKGBuildHelper._RemoveOlderOriginalSourcePackage
RemoveOlderOriginalSourcePackage(project_name, project_version) ==
  << Pass(project_name \o <<"_","*",".","o","r","i","g",".","t","a","r",".","g","z">>,
          <<"^">> \o project_name \o s_us \o project_version \o <<".","o","r","i","g",".","t","a","r",".","g","z">>) >>

\* DPKGBuildHelper._RemoveOlderSourceDPKGPackages
RemoveOlderSourceDPKGPackages(h, project_name, project_version) ==
  LET filenames_to_ignore == <<"^">> \o project_name \o <<"[","-","_","]",".","*">> \o project_version
      stem == project_name \o <<"[","-","_","]","*","-","[","1","-","9","]">> \o h.version_suffix \o <<"~">>
                \o h.distribution
  IN  << Pass(stem \o s_us \o h.architecture \o <<".","*">>, filenames_to_ignore),
         Pass(stem \o <<".","*">>, filenames_to_ignore) >>

\* ConfigureMakeMSIBuildHelper.Clean
ConfigureMakeMSIClean(h, project_name, project_version) ==
  LET tail == <<".","1",".">> \o h.architecture \o <<"-","p","y","2",".","7",".","m","s","i">>
      py == <<"p","y">> \o SliceFrom(project_name, 3)
  IN  << Pass(py \o <<"-","*">> \o tail, py \o <<"-",".","*">> \o project_version \o tail),
         Pass(project_name \o <<"-","p","y","t","h","o","n","-","*">> \o tail,
              project_name \o <<"-","p","y","t","h","o","n","-",".","*">> \o project_version \o tail) >>

\* for filename in ('build', 'dist'): shutil.rmtree(filename, True)
RemoveBuildAndDist(files) == files \ {<<"b","u","i","l","d">>, <<"d","i","s","t">>}

\* The MSI pass of SetupPyMSIBuildHelper.Clean
SetupPyMSIClean(h, pd, src) ==
  LET info == GetFilenameSafeProjectInformation(h, pd, src)
      tail == s_dot \o h.architecture \o MSICleanSuffix(pd) \o <<".","m","s","i">>
  IN  << Pass(info[1] \o <<"-","*">> \o tail,
              info[1] \o <<"-",".","*">> \o MSIVersion(info[2]) \o tail) >>

\* PKGBuildHelper.Clean
PKGClean(project_name, project_version) ==
  LET filenames_to_ignore == <<"^">> \o project_name \o <<"-",".","*">> \o project_version
  IN  << Pass(project_name \o <<"-","*",".","d","m","g">>, filenames_to_ignore),
         Pass(project_name \o <<"-","*",".","p","k","g">>, filenames_to_ignore) >>

\* self.rpmbuild_path = os.path.expanduser('~/rpmbuild')
RPMBuildPath(hst) == hst.home \o <<"/","r","p","m","b","u","i","l","d">>

\* RPMBuildHelper._RemoveOlderBuildDirectory
RemoveOlderBuildDirectory(hst, project_name, project_version) ==
  << Pass(RPMBuildPath(hst) \o <<"/","B","U","I","L","D","/">> \o project_name \o <<"-","*">>,
          project_name \o s_dash \o project_version) >>

\* RPMBuildHelper._RemoveOlderRPMs
RemoveOlderRPMs(h, hst, project_name, project_version) ==
  LET filenames_to_ignore ==
        project_name \o <<"-",".","*">> \o project_version \o <<"-","1",".">> \o h.architecture \o <<".","r","p","m">>
      rpm_filenames_glob == project_name \o <<"-","*","-","1",".">> \o h.architecture \o <<".","r","p","m">>
  IN  << Pass(rpm_filenames_glob, filenames_to_ignore),
         Pass(RPMBuildPath(hst) \o <<"/","R","P","M","S","/">> \o h.architecture \o s_slash
                \o rpm_filenames_glob,
              filenames_to_ignore) >>

\* SRPMBuildHelper._RemoveOlderSourceRPMs
RemoveOlderSourceRPMs(hst, project_name, project_version) ==
  LET filenames_to_ignore == project_name \o <<"-",".","*">> \o project_version \o <<"-","1",".","s","r","c",".","r","p","m">>
      src_rpm_filenames_glob == project_name \o <<"-","*","-","1",".","s","r","c",".","r","p","m">>
  IN  << Pass(src_rpm_filenames_glob, filenames_to_ignore),
         Pass(RPMBuildPath(hst) \o <<"/","S","R","P","M","S","/">> \o src_rpm_filenames_glob,
              filenames_to_ignore) >>

\* The loop of OSCBuildHelper.Clean, which runs "osc -q remove" on the
\* files it selects.
OSCClean(project_name, project_version) ==
  LET osc_package_path == s_OSC_PROJECT \o s_slash \o project_name
  IN  << Pass(osc_package_path \o s_slash \o project_name \o <<"-","*",".","t","a","r",".","g","z">>,
              <<"^">> \o osc_package_path \o s_slash \o project_name
                \o s_dash \o project_version \o <<".","t","a","r",".","g","z">>) >>

\* The passes of Clean of the class of h, in the order it runs them.
CleanPasses(h, pd, src, hst) ==
  LET info == GetFilenameSafeProjectInformation(h, pd, src)
      name == info[1]
      version == info[2]
  IN  CASE h.cls = "ConfigureMakeDPKGBuildHelper" ->
             RemoveOlderOriginalSourcePackage(src.project_name, src.version)
               \o RemoveOlderDPKGPackages(h, src.project_name, src.version)
        \* both source dpkg Clean methods take the name and the version
        \* from the source helper
        [] IsSourceDPKGClass(h.cls) ->
             RemoveOlderOriginalSourcePackage(src.project_name, src.version)
               \o RemoveOlderSourceDPKGPackages(h, src.project_name, src.version)
        \* project_name[7] is one character, and an IndexError when the
        \* name has seven characters or fewer
        [] h.cls = "SetupPyDPKGBuildHelper" ->
             RemoveOlderOriginalSourcePackage(src.project_name, version)
               \o RemoveOlderDPKGPackages(h, name, version)
               \o (IF pd.python2_only \/ Len(name) < 8 THEN <<>>
                   ELSE RemoveOlderDPKGPackages(h, s_python3_ \o <<name[8]>>, version))
        [] h.cls = "ConfigureMakeMSIBuildHelper" ->
             ConfigureMakeMSIClean(h, src.project_name, src.version)
        [] h.cls = "SetupPyMSIBuildHelper" -> SetupPyMSIClean(h, pd, src)
        [] IsOSCClass(h.cls) -> OSCClean(src.project_name, src.version)
        [] IsPKGClass(h.cls) -> PKGClean(src.project_name, src.version)
        [] IsRPMClass(h.cls) ->
             RemoveOlderBuildDirectory(hst, name, version)
               \o RemoveOlderRPMs(h, hst, name, version)
        [] IsSRPMClass(h.cls) -> RemoveOlderSourceRPMs(hst, name, version)
        [] OTHER -> <<>>

\* Whether Clean of the class of h raises: SetupPySourceBuildHelper defines
\* no Clean and inherits none (AttributeError); SetupPyDPKGBuildHelper
\* indexes project_name[7].
CleanRaises(h, pd, src) ==
  \/ h.cls = "SetupPySourceBuildHelper"
  \/ /\ h.cls = "SetupPyDPKGBuildHelper"
     /\ ~pd.python2_only
     /\ Len(GetFilenameSafeProjectInformation(h, pd, src)[1]) < 8

\* Clean(source_helper_object) of the class of h on the files `files`: the
\* set of outcomes, each the files left and "None", or "raise" when the
\* call raised.  osc remove is an external command: each file it is run on
\* may or may not be gone afterwards.
CleanOutcomes(h, pd, src, hst, files) ==
  LET start == IF h.cls \in {"SetupPyMSIBuildHelper", "SetupPyRPMBuildHelper"}
                 THEN RemoveBuildAndDist(files) ELSE files
      left == RemovePasses(start, CleanPasses(h, pd, src, hst))
      result == IF CleanRaises(h, pd, src) THEN "raise" ELSE "None"
  IN  IF IsOSCClass(h.cls)
        THEN {[fs |-> files \ gone, result |-> result] : gone \in SUBSET (files \ left)}
        ELSE {[fs |-> left, result |-> result]}

\* Clean(source_helper_object)
Clean ==
  /\ helper # NoHelper
  /\ \E out \in CleanOutcomes(helper, project, source, host, View(fs, cwd)) :
       /\ fs' = fs \ {Resolve(f, cwd) : f \in View(fs, cwd) \ out.fs}
       /\ last' = [op |-> "Clean", result |-> out.result, before |-> fs,
                   raised |-> (out.result = "raise")]
  /\ UNCHANGED <<project, source, host, helper, cwd>>

(***************************************************************************)
(* Build.  A call of Build is computed as the set of its possible runs:    *)
(* what the source helper, the files of the source tree and the external   *)
(* commands answer is not known to the caller, so each question forks the  *)
(* run.  A run records the events of the call in their order.              *)
(***************************************************************************)
\* An event of a run: k is "download", "create", "cmd" (an external command
\* run through subprocess), "generate" (a call of the dpkg_files or
\* spec_file generators) or "py" (a file operation of Build itself); ok is
\* whether it succeeded (exit code 0 for a command).
Event(k, name, ok) ==
  [k |-> k, name |-> name, ok |-> ok, dir |-> <<>>, log |-> "none"]

\* The event of a command run through the shell as
\* "(cd <directory> && <command> > <log> 2>&1)": dir is the directory, <<>>
\* for a command run in the working directory; log is "truncate" for ">",
\* "append" for ">>" and "none" for a command that is not redirected to
\* build.log.
CommandEvent(name, ok, directory, log) ==
  [k |-> "cmd", name |-> name, ok |-> ok, dir |-> directory, log |-> log]

\* The run at the entry of a lifecycle operation.  res is "run" until the
\* operation returns ("True", "False") or raises ("raise"); ret is the
\* value the last helper method returned; known holds the answers given so
\* far about files outside the working directory; ans is the last answer.
NewRun(files, c, environ) ==
  [res |-> "run", ret |-> TRUE, events |-> <<>>, cwd |-> c, base |-> c,
   fs |-> files, environ |-> environ, known |-> <<>>, ans |-> 0,
   moved |-> {}, kept |-> {}, replaced |-> {}]

\* Sequencing: F continues every run of R that has not returned or raised.
Then(R, F(_)) ==
  {r \in R : r.res # "run"} \cup UNION {F(r) : r \in {q \in R : q.res = "run"}}

\* Sequencing inside a helper method whose steps stop at the first failure.
ThenOk(R, F(_)) ==
  {r \in R : r.res # "run" \/ ~r.ret}
    \cup UNION {F(r) : r \in {q \in R : q.res = "run" /\ q.ret}}

Emit(r, e) == [r EXCEPT !.events = Append(@, e)]
Return(r, value) == [r EXCEPT !.res = value]
Returned(r, ok) == [r EXCEPT !.ret = ok]

\* "if not <the helper's result>: return False"
ReturnFalseIfNot(R) ==
  {IF r.res = "run" /\ ~r.ret THEN Return(r, "False") ELSE r : r \in R}

\* "return <the helper's result>"
ReturnResult(R) ==
  {IF r.res = "run" THEN Return(r, IF r.ret THEN "True" ELSE "False") ELSE r : r \in R}

\* "return True"
ReturnTrue(R) == {IF r.res = "run" THEN Return(r, "True") ELSE r : r \in R}

\* A question about the file system outside the tracked files, asked of the
\* path `path` relative to the working directory: answered once per path.
Ask(r, path, answers) ==
  LET key == IF IsAbsolute(path[1]) THEN path ELSE r.cwd \o path
  IN  IF key \in DOMAIN r.known
        THEN {[r EXCEPT !.ans = r.known[key]]}
        ELSE {[r EXCEPT !.known = (key :> a) @@ @, !.ans = a] : a \in answers}

\* os.path.exists(path) for such a path
Exists(r, path) == Ask(r, path, BOOLEAN)

\* os.path.exists(filename) for a tracked file name
ExistsFile(r, filename) == filename \in View(r.fs, r.cwd)

\* exit_code = subprocess.call(command): the helper's result is
\* exit_code == 0.
Call(r, command) ==
  {Returned(Emit(r, Event("cmd", command, ok)), ok) : ok \in BOOLEAN}

\* exit_code = subprocess.call(command); if exit_code != 0: return False
CallOrReturnFalse(r, command) == ReturnFalseIfNot(Call(r, command))

\* exit_code = subprocess.call('(cd {0:s} && {1:s})'.format(directory,
\* command), shell=True), the command redirected to the log as `log` says.
CallIn(r, command, directory, log) ==
  {Returned(Emit(r, CommandEvent(command, ok, directory, log)), ok) : ok \in BOOLEAN}

\* The same, followed by "if exit_code != 0: return False"
CallInOrReturnFalse(r, command, directory, log) ==
  ReturnFalseIfNot(CallIn(r, command, directory, log))

\* subprocess.call of a command whose output goes to build.log: "truncate"
\* for "> build.log 2>&1", "append" for ">> build.log 2>&1".  The directory
\* of the command is not recorded.
CallLogging(r, command, log) == CallIn(r, command, <<>>, log)
CallLoggingOrReturnFalse(r, command, log) == ReturnFalseIfNot(CallLogging(r, command, log))

\* A command that exited 0 may or may not have left the file `filename`.
MayProduce(r, filename) ==
  {r, [r EXCEPT !.fs = @ \cup {Resolve(filename, r.cwd)}]}

\* os.chdir(directory) for a directory name relative to the working
\* directory.  The directory Create made lies in the directory Build was
\* entered in; below any other directory it may not exist (OSError).
Chdir(r, directory) ==
  IF r.cwd = r.base THEN {[r EXCEPT !.cwd = Append(@, directory)]}
  ELSE {IF q.ans THEN [q EXCEPT !.cwd = Append(@, directory)] ELSE Return(q, "raise") :
          q \in Exists(r, <<directory>>)}

\* os.chdir(path) for a directory inside the source tree, which may not
\* exist (OSError).
ChdirPath(r, path) ==
  {IF q.ans THEN [q EXCEPT !.cwd = @ \o path] ELSE Return(q, "raise") :
     q \in Exists(r, path)}

\* What is known about the path `path` is forgotten (the file was renamed
\* or replaced).
Forget(r, path) ==
  [r EXCEPT !.known = [key \in DOMAIN @ \ {r.cwd \o path} |-> @[key]]]

\* os.chdir('..')
ChdirUp(r) ==
  [r EXCEPT !.cwd = IF @ = <<>> \/ @[Len(@)] = <<".",".">>
                      THEN Append(@, <<".",".">>)
                      ELSE SubSeq(@, 1, Len(@) - 1)]

\* {name}-{version}.tar.gz
TarGz(name, version) == name \o s_dash \o version \o <<".","t","a","r",".","g","z">>

\* The name of the file source_helper_object.Download() returns and of the
\* directory source_helper_object.Create() returns, both relative to the
\* working directory.
SourceFilename(src) == src.filename
SourceDirectory(src) == src.project_name \o s_dash \o src.version

\* source_filename = source_helper_object.Download()
\* if not source_filename: return False
Download(r) ==
  {IF ok THEN Emit(r, Event("download", "Download", TRUE))
         ELSE Return(Emit(r, Event("download", "Download", FALSE)), "False") :
     ok \in BOOLEAN}

\* A mutant of Create: Build goes on without the source directory.
CreateIgnoresFailure(r) ==
  {Returned(Emit(r, Event("create", "Create", ok)), TRUE) : ok \in BOOLEAN}

\* source_directory = source_helper_object.Create(); the helper's result
\* is whether it returned a directory.
Create(r) ==
  {Returned(Emit(r, Event("create", "Create", ok)), ok) : ok \in BOOLEAN}

\* source_directory = source_helper_object.Create()
\* if not source_directory: return False
CreateOrReturnFalse(r) == ReturnFalseIfNot(Create(r))

\* A call of a generator of dpkg_files or spec_file; the helper's result is
\* what it returned.
Generate(r, name) ==
  {Returned(Emit(r, Event("generate", name, ok)), ok) : ok \in BOOLEAN}

(***************************************************************************)
(* Build of the source and dpkg strategies.                                *)
(***************************************************************************)
\* A mutant of ConfigureMakeSourceBuild: make is run whatever ./configure
\* exited with.
ConfigureMakeSourceBuildMakesAnyway(r0, src) ==
  LET s1 == Then(Download(r0), CreateOrReturnFalse)
      s2 == Then(s1, LAMBDA r :
              CallIn(r, "./configure", SourceDirectory(src), "truncate"))
      s3 == Then(s2, LAMBDA r :
              CallInOrReturnFalse(r, "make", SourceDirectory(src), "append"))
  IN  ReturnTrue(s3)

\* ConfigureMakeSourceBuildHelper.Build
ConfigureMakeSourceBuild(r0, src) ==
  LET s1 == Then(Download(r0), CreateOrReturnFalse)
      s2 == Then(s1, LAMBDA r :
              CallInOrReturnFalse(r, "./configure", SourceDirectory(src), "truncate"))
      s3 == Then(s2, LAMBDA r :
              CallInOrReturnFalse(r, "make", SourceDirectory(src), "append"))
  IN  ReturnTrue(s3)

\* SetupPySourceBuildHelper.Build
SetupPySourceBuild(r0, src) ==
  LET s1 == Then(Download(r0), CreateOrReturnFalse)
      s2 == Then(s1, LAMBDA r :
              CallInOrReturnFalse(r, "setup.py build", SourceDirectory(src), "truncate"))
  IN  ReturnTrue(s2)

\* DPKGBuildHelper._CreateOriginalSourcePackage
CreateOriginalSourcePackage(r, pd, project_name, project_version) ==
  LET name == IF pd.dpkg_source_name # <<>> THEN pd.dpkg_source_name ELSE project_name
      deb_orig_source_filename == name \o s_us \o project_version \o <<".","o","r","i","g",".","t","a","r",".","g","z">>
  IN  IF ExistsFile(r, deb_orig_source_filename) THEN r
      ELSE [r EXCEPT !.fs = @ \cup {Resolve(deb_orig_source_filename, r.cwd)}]

\* DPKGBuildHelper._CreatePackagingFiles: the debian directory is copied
\* from the dpkg directory of the source tree (dpkg or config/dpkg) when
\* there is one, and generated otherwise.
CreatePackagingFiles(r, src) ==
  LET generated(q) ==
        LET g1 == Chdir(q, SourceDirectory(src))
            g2 == Then(g1, LAMBDA x : {Emit(x, Event("generate", "GenerateFiles", TRUE))})
        IN  Then(g2, LAMBDA x : {ChdirUp(x)})
      prepared == Then(Exists(r, <<SourceDirectory(src), <<"d","p","k","g">>>>),
                       LAMBDA q : IF q.ans THEN {q} ELSE generated(q))
  IN  Then(prepared,
           LAMBDA q : IF q.ans THEN {Returned(q, TRUE)}
                      ELSE {Returned(x, x.ans) :
                              x \in Exists(q, <<SourceDirectory(src), <<"d","e","b","i","a","n">>>>)})

\* self._prep_script and self._post_script, and the commands that run them
DPKGPrepScript(h) ==
  IF IsSourceDPKGClass(h.cls) THEN <<"p","r","e","p","-","d","p","k","g","-","s","o","u","r","c","e",".","s","h">> ELSE <<"p","r","e","p","-","d","p","k","g",".","s","h">>
DPKGPostScript(h) ==
  IF IsSourceDPKGClass(h.cls) THEN <<"p","o","s","t","-","d","p","k","g","-","s","o","u","r","c","e",".","s","h">> ELSE <<"p","o","s","t","-","d","p","k","g",".","s","h">>
DPKGPrepCommand(h) ==
  IF IsSourceDPKGClass(h.cls) THEN "sh ../prep-dpkg-source.sh" ELSE "sh ../prep-dpkg.sh"
DPKGPostCommand(h) ==
  IF IsSourceDPKGClass(h.cls) THEN "sh ../post-dpkg-source.sh" ELSE "sh ../post-dpkg.sh"

\* A mutant of RunDPKGScript: a script that is not there fails the step.
RunDPKGScriptRequired(r, script, command) ==
  Then(Exists(r, <<script>>),
       LAMBDA q : IF q.ans THEN Call(q, command) ELSE {Returned(q, FALSE)})

\* DPKGBuildHelper._BuildPrepare and _BuildFinalize: the script, if there
\* is one, is run in the source directory.
RunDPKGScript(r, script, command) ==
  Then(Exists(r, <<script>>),
       LAMBDA q : IF q.ans THEN Call(q, command) ELSE {Returned(q, TRUE)})

\* The command that builds the packages of the class of h.
DPKGCommand(h) ==
  IF IsSourceDPKGClass(h.cls) THEN "debuild" ELSE "dpkg-buildpackage"

\* Build of the four dpkg helpers
DPKGBuild(r0, h, pd, src) ==
  LET project_version ==
        IF h.cls \in {"SetupPyDPKGBuildHelper", "SetupPySourceDPKGBuildHelper"}
          THEN GetFilenameSafeProjectInformation(h, pd, src)[2]
          ELSE src.version
      s1 == Then(Download(r0),
                 LAMBDA r : {CreateOriginalSourcePackage(
                               r, pd, src.project_name, project_version)})
      s2 == Then(s1, CreateOrReturnFalse)
      s3 == ReturnFalseIfNot(Then(s2, LAMBDA r : CreatePackagingFiles(r, src)))
      s4 == ReturnFalseIfNot(Then(s3, LAMBDA r : RunDPKGScript(r, DPKGPrepScript(h), DPKGPrepCommand(h))))
      s5 == Then(s4, LAMBDA r : CallLoggingOrReturnFalse(r, DPKGCommand(h), "truncate"))
      s6 == Then(s5, LAMBDA r : MayProduce(r, TestedFilename(h, pd, src)))
      s7 == ReturnFalseIfNot(Then(s6, LAMBDA r : RunDPKGScript(r, DPKGPostScript(h), DPKGPostCommand(h))))
  IN  ReturnTrue(s7)


(***************************************************************************)
(* Build of the MSI strategies.                                            *)
(***************************************************************************)
\* self._data_path, the data directory of l2tdevtools
s_data_path == <<"/","l","2","t","d","e","v","t","o","o","l","s","/","d","a","t","a">>

\* The path _ApplyPatches ends its search of _COMMON_PATCH_EXE_PATHS with:
\* the first that exists, and the last of the list when none exists
\* (patch_exe_path is the loop variable, so it is never None).
s_patch_exe == <<"C",":","/","p","a","t","c","h",".","e","x","e">>

\* The loop of MSIBuildHelper._ApplyPatches over the patch file names: a
\* missing patch file is skipped; subprocess.call raises OSError when
\* patch.exe does not exist.
RECURSIVE ApplyPatchFiles(_, _)
ApplyPatchFiles(R, patches) ==
  IF patches = <<>> THEN R
  ELSE ApplyPatchFiles(
         ThenOk(R, LAMBDA r :
           Then(Exists(r, <<s_data_path, <<"p","a","t","c","h","e","s">>, Head(patches)>>),
                LAMBDA q :
                  IF ~q.ans THEN {Returned(q, TRUE)}
                  ELSE Then(Exists(q, <<s_patch_exe>>),
                            LAMBDA x : IF x.ans THEN Call(x, "patch.exe")
                                       ELSE {Return(x, "raise")}))),
         Tail(patches))

\* MSIBuildHelper._ApplyPatches
ApplyPatches(r, patches) == ApplyPatchFiles({Returned(r, TRUE)}, patches)

\* if self._project_definition.patches:
\*   os.chdir(source_directory); result = self._ApplyPatches(...)
\*   os.chdir('..'); if not result: return False
ApplyPatchesInSource(r, pd, src) ==
  IF pd.patches = <<>> THEN {r}
  ELSE LET a1 == Chdir(r, SourceDirectory(src))
           a2 == Then(a1, LAMBDA q : ApplyPatches(q, pd.patches))
       IN  ReturnFalseIfNot(Then(a2, LAMBDA q : {ChdirUp(q)}))

\* MSIBuildHelper._RunPreBuildScript: command is bound for a script name
\* that ends with ".ps1" or with "py" only (UnboundLocalError otherwise).
RunPreBuildScript(r, script) ==
  IF EndsWith(script, <<".","p","s","1">>) THEN Call(r, "powershell.exe")
  ELSE IF EndsWith(script, <<"p","y">>) THEN Call(r, "python")
  ELSE {Return(r, "raise")}

\* if self._project_definition.msi_prebuild:
\*   os.chdir(source_directory); result = self._RunPreBuildScript(...)
\*   os.chdir('..'); if not result: return False
RunPreBuildScriptInSource(r, pd, src) ==
  IF pd.msi_prebuild = <<>> THEN {r}
  ELSE LET a1 == Chdir(r, SourceDirectory(src))
           a2 == Then(a1, LAMBDA q : RunPreBuildScript(q, pd.msi_prebuild))
       IN  ReturnFalseIfNot(Then(a2, LAMBDA q : {ChdirUp(q)}))

\* The name of the MSI that "setup.py bdist_msi" leaves in dist for the
\* Python module python_module_name.
BuiltMSI(python_module_name, h, src) ==
  python_module_name \o s_dash \o src.version \o s_dot \o h.architecture \o <<"-","p","y","2",".","7",".","m","s","i">>

\* The MSI that is always moved, over a file of its name
MoveIntoOverwrites(r, filename, directory) ==
  [r EXCEPT !.fs = @ \cup {Resolve(filename, directory)},
            !.moved = @ \cup {Resolve(filename, directory)}]

\* The MSI is moved into the directory `directory` unless a file of its
\* name is there: "if os.path.exists(msi_filename): ... else: shutil.move".
\* moved holds the files this Build put in place, kept the files it found
\* in place and left, replaced the files it removed for the one it moved.
MoveInto(r, filename, directory) ==
  IF Resolve(filename, directory) \in r.fs
    THEN [r EXCEPT !.kept = @ \cup {Resolve(filename, directory)}]
    ELSE [r EXCEPT !.fs = @ \cup {Resolve(filename, directory)},
                   !.moved = @ \cup {Resolve(filename, directory)}]

\* ConfigureMakeMSIBuildHelper._MoveMSI, called in the directory of
\* setup.py; build_directory is `levels` directories up.
MoveMSI(r, python_module_name, levels, h, src) ==
  {IF q.ans # 1 THEN Returned(q, FALSE)
   ELSE Returned(MoveInto(q, BuiltMSI(python_module_name, h, src),
                          SubSeq(q.cwd, 1, Len(q.cwd) - levels)), TRUE) :
     q \in Ask(r, <<<<"d","i","s","t">>, python_module_name \o <<"-","*",".","m","s","i">>>>, {0, 1, 2})}

\* os.environ.get(name, None), "" standing for None
EnvironGet(environ, name) == IF name \in DOMAIN environ THEN environ[name] ELSE ""

\* The name of the environment variable of Visual Studio version `version`.
VSVariableOf(version) ==
  VSVariables[CHOOSE i \in DOMAIN VSVariables : VSVariables[i].version = version].name

\* ConfigureMakeMSIBuildHelper._BuildSetupPy
BuildSetupPy(r, h) ==
  Call(IF h.version = "2008" THEN r
       ELSE [r EXCEPT !.environ =
               ("VS90COMNTOOLS" :> r.environ[VSVariableOf(h.version)]) @@ @],
       "setup.py bdist_msi")

\* ConfigureMakeMSIBuildHelper._ConvertSolutionFiles: the two early returns
\* come before os.chdir('..').
ConvertSolutionFiles(r, src) ==
  LET c1 == Chdir(r, SourceDirectory(src))
      c2 == Then(c1, LAMBDA q : Ask(q, <<<<"m","s","v","s","c","p","p">>, <<"*",".","s","l","n">>>>, {0, 1, 2}))
      converted(q) ==
        {IF x.ret THEN ChdirUp(Forget(x, <<<<"m","s","v","s","c","p","p">>, <<"*",".","s","l","n">>>>)) ELSE x :
           x \in Call(q, "msvscpp-convert.py")}
  IN  Then(c2, LAMBDA q :
        IF q.ans # 1 THEN {Returned(q, FALSE)}
        ELSE Then(Exists(q, <<<<"v","s","2","0","0","8">>>>),
                  LAMBDA x : IF x.ans THEN {ChdirUp(x)} ELSE converted(x)))

\* ConfigureMakeMSIBuildHelper._BuildPrepare edits common/config_winapi.h,
\* or common/config_msc.h when that does not exist: fileinput raises
\* IOError when the file it is given does not exist.
MSIBuildPrepare(r, src) ==
  {IF q.ans THEN q ELSE Return(q, "raise") :
     q \in Exists(r, <<SourceDirectory(src), <<"c","o","m","m","o","n">>, <<"c","o","n","f","i","g","_","m","s","c",".","h">>>>)}

\* msvscpp_platform of _BuildMSBuild
MSVSCPPPlatform(environ) ==
  LET platform == EnvironGet(environ, "Platform")
      cpu == IF platform = "" THEN EnvironGet(environ, "TARGET_CPU") ELSE platform
  IN  IF cpu = "" \/ cpu = "x86" THEN "Win32" ELSE cpu

\* Whether the project file of a dependency (zlib.vcproj, dokan.vcproj) is
\* in the source tree while the source of the dependency is not next to
\* the source directory: the answer is in ans.
MissingDependency(r, src, dependency) ==
  Exists(r, <<SourceDirectory(src), <<"m","s","v","s","c","p","p">>, dependency>>)

NewerVisualStudio == {"2010", "2012", "2013", "2015", "2017"}

\* The end of _BuildMSBuild, after MSBuild has exited 0: the Python module
\* is built with setup.py unless it has a dist directory.
BuildPythonModule(r, h, src) ==
  LET python_module_name == <<"p","y">> \o SliceFrom(BeforeFirst(SourceDirectory(src), "-"), 3)
      python_module_directory == <<SourceDirectory(src), python_module_name>>
      m1(q) == ChdirPath(q, python_module_directory)
      m2(q) == Then(m1(q), LAMBDA x : BuildSetupPy(x, h))
      m3(q) == ThenOk(m2(q), LAMBDA x : MoveMSI(x, python_module_name, 2, h, src))
  IN  Then(Exists(r, python_module_directory \o <<<<"d","i","s","t">>>>),
           LAMBDA q : IF q.ans THEN {Returned(q, TRUE)}
                      ELSE Then(m3(q), LAMBDA x : {ChdirUp(ChdirUp(x))}))

\* ConfigureMakeMSIBuildHelper._BuildMSBuild
BuildMSBuild(r, h, src) ==
  LET b1 == IF h.version \notin {"2008"} \cup NewerVisualStudio
              THEN {Returned(r, FALSE)}
              ELSE {Returned(q, q.ans) : q \in Exists(r, <<<<"C",":","/","M","S","B","u","i","l","d",".","e","x","e">>>>)}
      b2 == ThenOk(b1, LAMBDA q : {Returned(q, q.environ[VSVariableOf(h.version)] # "")})
      b3 == ThenOk(b2, LAMBDA q : {Returned(x, ~x.ans) : x \in MissingDependency(q, src, <<"z","l","i","b">>)})
      b4 == ThenOk(b3, LAMBDA q : {Returned(x, ~x.ans) : x \in MissingDependency(q, src, <<"d","o","k","a","n">>)})
      \* the result of _ConvertSolutionFiles is not looked at
      b5 == ThenOk(b4, LAMBDA q : IF h.version \in NewerVisualStudio
                                    THEN {Returned(x, TRUE) : x \in ConvertSolutionFiles(q, src)}
                                    ELSE {q})
      b6 == ThenOk(b5, LAMBDA q : MSIBuildPrepare(q, src))
      b7 == ThenOk(b6, LAMBDA q :
              {Returned(q, /\ MSVSCPPPlatform(q.environ) \in {"Win32", "x64"}
                           /\ ~(h.version = "2008" /\ MSVSCPPPlatform(q.environ) = "x64"))})
      b8 == ThenOk(b7, LAMBDA q :
              {Returned(x, x.ans = 1) :
                 x \in Ask(q, <<SourceDirectory(src), <<"m","s","v","s","c","p","p">>, <<"*",".","s","l","n">>>>, {0, 1, 2})})
      b9 == ThenOk(b8, LAMBDA q : Call(q, "MSBuild.exe"))
  IN  ThenOk(b9, LAMBDA q : BuildPythonModule(q, h, src))

\* ConfigureMakeMSIBuildHelper.Build
ConfigureMakeMSIBuild(r0, h, pd, src) ==
  LET python_module_name == BeforeFirst(SourceDirectory(src), "-")
      t1(q) == Chdir(q, SourceDirectory(src))
      t2(q) == Then(t1(q), LAMBDA x : BuildSetupPy(x, h))
      t3(q) == ThenOk(t2(q), LAMBDA x : MoveMSI(x, python_module_name, 1, h, src))
      WithSetupPy(q) ==
        Then(Exists(q, <<SourceDirectory(src), <<"d","i","s","t">>>>),
             LAMBDA x : IF x.ans THEN {Returned(x, FALSE)}
                        ELSE Then(t3(x), LAMBDA y : {ChdirUp(y)}))
      s1 == Then(Download(r0), CreateOrReturnFalse)
      s2 == Then(s1, LAMBDA r : ApplyPatchesInSource(r, pd, src))
      s3 == Then(s2, LAMBDA r : Exists(r, <<SourceDirectory(src), <<"s","e","t","u","p",".","p","y">>>>))
      s4 == Then(s3, LAMBDA r : IF r.ans THEN WithSetupPy(r) ELSE BuildMSBuild(r, h, src))
  IN  ReturnResult(s4)

\* SetupPyMSIBuildHelper.Build
SetupPyMSIBuild(r0, h, pd, src) ==
  LET project_name == GetFilenameSafeProjectInformation(h, pd, src)[1]
      s1 == Then(Download(r0), CreateOrReturnFalse)
      s2 == Then(s1, LAMBDA r : ApplyPatchesInSource(r, pd, src))
      s3 == Then(s2, LAMBDA r : RunPreBuildScriptInSource(r, pd, src))
      s4 == Then(s3, LAMBDA r : CallLoggingOrReturnFalse(r, "setup.py bdist_msi", "truncate"))
      s5 == Then(s4, LAMBDA r :
              Ask(r, <<SourceDirectory(src), <<"d","i","s","t">>, project_name \o <<"-","*",".","m","s","i">>>>, {0, 1, 2}))
      s6 == Then(s5, LAMBDA r :
              {IF r.ans # 1 THEN Return(r, "False")
               ELSE MoveInto(r, BuiltMSI(project_name, h, src), r.cwd)})
  IN  ReturnTrue(s6)

(***************************************************************************)
(* Build of the osc strategies.                                            *)
(***************************************************************************)
\* OSCBuildHelper._BuildPrepare: the project is checked out or updated, and
\* the package created when it has no directory.  Its "return" without a
\* value and its "return False" are both false to the caller.
OSCBuildPrepare(r, src) ==
  LET p1 == Then(Exists(r, <<s_OSC_PROJECT>>),
                 LAMBDA q : IF q.ans THEN CallLogging(q, "osc update", "append")
                            ELSE CallLogging(q, "osc checkout", "append"))
      created(q) == ThenOk(Call(q, "osc meta pkg"), LAMBDA x : CallLogging(x, "osc update", "append"))
  IN  ThenOk(p1, LAMBDA q :
        Then(Exists(q, <<s_OSC_PROJECT, src.project_name>>),
             LAMBDA x : IF x.ans THEN {Returned(x, TRUE)} ELSE created(x)))

\* shutil.copy(source_filename, osc_source_path)
CopyToOSCPackage(r, src, filename) ==
  [r EXCEPT !.fs = @ \cup {Resolve(s_OSC_PROJECT \o s_slash \o src.project_name
                                     \o s_slash \o filename, r.cwd)}]

\* A mutant of ConfigureMakeOSCBuild: the spec file is added whether or not
\* it was in the package directory.
ConfigureMakeOSCBuildAddsSpec(r0, src) ==
  LET osc_source_filename == TarGz(src.project_name, src.version)
      spec_filename == src.project_name \o <<".","s","p","e","c">>
      s1 == ReturnFalseIfNot(Then(Download(r0), LAMBDA r : OSCBuildPrepare(r, src)))
      s2 == Then(s1, LAMBDA r : {CopyToOSCPackage(r, src, osc_source_filename)})
      s3 == Then(s2, LAMBDA r : CallLoggingOrReturnFalse(r, "osc add", "append"))
      s4 == Then(s3, LAMBDA r : Exists(r, <<s_OSC_PROJECT, src.project_name, spec_filename>>))
      s5 == Then(s4, LAMBDA r : CallOrReturnFalse(r, "tar"))
      s6 == Then(s5, LAMBDA r : CallLoggingOrReturnFalse(r, "osc add", "append"))
  IN  ReturnResult(Then(s6, LAMBDA r : CallLogging(r, "osc commit", "append")))

\* ConfigureMakeOSCBuildHelper.Build
ConfigureMakeOSCBuild(r0, src) ==
  LET osc_source_filename == src.project_name \o s_dash \o src.version \o <<".","t","a","r",".","g","z">>
      spec_filename == src.project_name \o <<".","s","p","e","c">>
      s1 == ReturnFalseIfNot(Then(Download(r0), LAMBDA r : OSCBuildPrepare(r, src)))
      s2 == Then(s1, LAMBDA r : {CopyToOSCPackage(r, src, osc_source_filename)})
      s3 == Then(s2, LAMBDA r : CallLoggingOrReturnFalse(r, "osc add", "append"))
      s4 == Then(s3, LAMBDA r : Exists(r, <<s_OSC_PROJECT, src.project_name, spec_filename>>))
      s5 == Then(s4, LAMBDA r : CallOrReturnFalse(r, "tar"))
      s6 == Then(s5, LAMBDA r : IF r.ans THEN {r} ELSE CallLoggingOrReturnFalse(r, "osc add", "append"))
  IN  ReturnResult(Then(s6, LAMBDA r : CallLogging(r, "osc commit", "append")))

\* SetupPyOSCBuildHelper.Build
SetupPyOSCBuild(r0, src) ==
  LET osc_source_path == s_OSC_PROJECT \o s_slash \o src.project_name
                           \o s_slash \o SourceFilename(src)
      project_name == IF StartsWith(src.project_name, s_python_)
                         /\ src.project_name # <<"p","y","t","h","o","n","-","g","f","l","a","g","s">>
                        THEN SliceFrom(src.project_name, 7) ELSE src.project_name
      s1 == ReturnFalseIfNot(Then(Download(r0), LAMBDA r : OSCBuildPrepare(r, src)))
      s2 == Then(s1, LAMBDA r :
              IF ExistsFile(r, osc_source_path) THEN {r}
              ELSE CallLoggingOrReturnFalse(CopyToOSCPackage(r, src, SourceFilename(src)),
                                            "osc add", "append"))
      s3 == Then(s2, CreateOrReturnFalse)
      s4 == ReturnFalseIfNot(Then(s3, LAMBDA r : Generate(r, "GenerateWithSetupPy")))
      s5 == Then(s4, LAMBDA r :
              Exists(r, <<s_OSC_PROJECT, src.project_name, project_name \o <<".","s","p","e","c">>>>))
      s6 == ReturnFalseIfNot(
              Then(s5, LAMBDA r : Generate(r, "RewriteSetupPyGeneratedFileForOSC")))
      s7 == Then(s6, LAMBDA r : IF r.ans THEN {r} ELSE CallLoggingOrReturnFalse(r, "osc add", "append"))
  IN  ReturnResult(Then(s7, LAMBDA r : CallLogging(r, "osc commit", "append")))

(***************************************************************************)
(* Build of the pkg strategies.                                            *)
(***************************************************************************)
\* PKGBuildHelper._BuildPKG, and the pkg it may leave
BuildPKG(r, pkg_filename) ==
  Then(CallOrReturnFalse(r, "pkgbuild"), LAMBDA q : MayProduce(q, pkg_filename))

\* PKGBuildHelper._BuildDmg, and the dmg it may leave
BuildDmg(r, dmg_filename) ==
  Then(CallOrReturnFalse(r, "hdiutil"), LAMBDA q : MayProduce(q, dmg_filename))

\* ConfigureMakePKGBuildHelper.Build
ConfigureMakePKGBuild(r0, src) ==
  LET dmg_filename == src.project_name \o s_dash \o src.version \o <<".","d","m","g">>
      pkg_filename == src.project_name \o s_dash \o src.version \o <<".","p","k","g">>
      b1(q) == CallLoggingOrReturnFalse(q, "./configure", "truncate")
      b2(q) == Then(b1(q), LAMBDA x : CallLoggingOrReturnFalse(x, "make", "append"))
      b3(q) == Then(b2(q), LAMBDA x : CallLoggingOrReturnFalse(x, "make install", "append"))
      s1 == Then(Download(r0), CreateOrReturnFalse)
      s2 == Then(s1, LAMBDA r :
              IF ExistsFile(r, pkg_filename) THEN {r}
              ELSE Then(b3(r), LAMBDA x : BuildPKG(x, pkg_filename)))
  IN  ReturnTrue(Then(s2, LAMBDA r : BuildDmg(r, dmg_filename)))

\* The license file names SetupPyPKGBuildHelper.Build looks for
LicenseFilenames == <<<<"C","O","P","Y","I","N","G">>, <<"L","I","C","E","N","S","E">>, <<"L","I","C","E","N","S","E",".","T","X","T">>, <<"L","I","C","E","N","S","E",".","t","x","t">>>>

\* The loop of SetupPyPKGBuildHelper.Build over the license file names:
\* each one that is in the source directory is copied with find.
RECURSIVE CopyLicenseFiles(_, _, _)
CopyLicenseFiles(R, src, license_files) ==
  IF license_files = <<>> THEN R
  ELSE CopyLicenseFiles(
         Then(R, LAMBDA r :
           Then(Exists(r, <<SourceDirectory(src), Head(license_files)>>),
                LAMBDA q : IF q.ans THEN CallOrReturnFalse(q, "find") ELSE {q})),
         src, Tail(license_files))

\* SetupPyPKGBuildHelper.Build
SetupPyPKGBuild(r0, src) ==
  LET dmg_filename == src.project_name \o s_dash \o src.version \o <<".","d","m","g">>
      pkg_filename == src.project_name \o s_dash \o src.version \o <<".","p","k","g">>
      b1(q) == CallLoggingOrReturnFalse(q, "setup.py build", "truncate")
      b2(q) == Then(b1(q), LAMBDA x : CallLoggingOrReturnFalse(x, "setup.py install", "truncate"))
      b3(q) == CopyLicenseFiles(b2(q), src, LicenseFilenames)
      s1 == Then(Download(r0), CreateOrReturnFalse)
      s2 == Then(s1, LAMBDA r :
              IF ExistsFile(r, pkg_filename) THEN {r}
              ELSE Then(b3(r), LAMBDA x : BuildPKG(x, pkg_filename)))
  IN  ReturnTrue(Then(s2, LAMBDA r : BuildDmg(r, dmg_filename)))

(***************************************************************************)
(* Build of the rpm and srpm strategies.                                   *)
(***************************************************************************)
\* BaseRPMBuildHelper._MoveFilesToCurrentDirectory: a file of the same name
\* in the working directory is removed before the move.
MoveFilesToCurrentDirectory(r, filenames_glob) ==
  LET filenames == {f \in View(r.fs, r.cwd) : GlobMatches(filenames_glob, f)}
      local_filenames == {Resolve(Basename(f), r.cwd) : f \in filenames}
  IN  [r EXCEPT !.fs = (@ \ {Resolve(f, r.cwd) : f \in filenames}) \cup local_filenames,
                !.moved = @ \cup local_filenames,
                !.replaced = @ \cup (local_filenames \cap r.fs)]

\* RPMBuildHelper._RemoveBuildDirectory: an OSError of rmtree is logged.
RemoveBuildDirectory(r, hst, project_name, project_version) ==
  [r EXCEPT !.fs = @ \ {RPMBuildPath(hst) \o <<"/","B","U","I","L","D","/">> \o project_name
                          \o s_dash \o project_version}]

\* The three _MoveRPMs: the globs of the files moved, in order.
MoveRPMsGlobs(h, hst, project_name, project_version) ==
  LET rpm_glob == project_name \o <<"-","*">> \o project_version \o <<"-","1",".">>
                    \o h.architecture \o <<".","r","p","m">>
      rpms_path == RPMBuildPath(hst) \o <<"/","R","P","M","S","/">> \o h.architecture \o s_slash
  IN  IF IsSRPMClass(h.cls)
        THEN <<RPMBuildPath(hst) \o <<"/","S","R","P","M","S","/">> \o project_name \o <<"-","*">>
                 \o project_version \o <<"-","1",".","s","r","c",".","r","p","m">>>>
      ELSE IF h.cls = "SetupPyRPMBuildHelper"
        THEN <<rpms_path \o <<"p","y","t","h","o","n","*","-">> \o rpm_glob, rpms_path \o rpm_glob>>
      ELSE <<rpms_path \o rpm_glob>>

RECURSIVE MoveEach(_, _)
MoveEach(r, globs) ==
  IF globs = <<>> THEN r
  ELSE MoveEach(MoveFilesToCurrentDirectory(r, Head(globs)), Tail(globs))

\* _MoveRPMs of the class of h
MoveRPMs(r, h, hst, project_name, project_version) ==
  MoveEach(r, MoveRPMsGlobs(h, hst, project_name, project_version))

\* The package rpmbuild leaves below the rpmbuild directory when it builds
\* the package CheckBuildRequired tests for.
BuiltRPM(h, pd, src, hst) ==
  IF IsSRPMClass(h.cls)
    THEN RPMBuildPath(hst) \o <<"/","S","R","P","M","S","/">> \o TestedFilename(h, pd, src)
    ELSE RPMBuildPath(hst) \o <<"/","R","P","M","S","/">> \o h.architecture \o s_slash
           \o TestedFilename(h, pd, src)

\* "if build_successful:" of the four Build methods: the packages are
\* moved, and the rpm helpers remove the build directory.
AfterRPMBuild(r, h, pd, src, hst) ==
  LET info == GetFilenameSafeProjectInformation(h, pd, src)
      moved(q) == MoveRPMs(q, h, hst, info[1], info[2])
  IN  {IF IsRPMClass(h.cls) THEN RemoveBuildDirectory(moved(q), hst, info[1], info[2])
       ELSE moved(q) : q \in MayProduce(r, BuiltRPM(h, pd, src, hst))}

\* BaseRPMBuildHelper._BuildFromSourcePackage
BuildFromSourcePackage(r) == CallLogging(r, "rpmbuild", "truncate")

\* BaseRPMBuildHelper._BuildFromSpecFile: rpmbuild runs in the rpmbuild
\* directory, and the working directory is restored whatever it exits with.
BuildFromSpecFile(r, hst) ==
  {[q EXCEPT !.cwd = r.cwd] : q \in CallLogging([r EXCEPT !.cwd = <<RPMBuildPath(hst)>>], "rpmbuild", "truncate")}

\* os.rename(old, new) of a file that exists: afterwards it is named new,
\* in place of whatever was named so; nothing changes when the names are equal.
Rename(r, old, new) ==
  [r EXCEPT !.fs = (@ \ {Resolve(old, r.cwd)}) \cup {Resolve(new, r.cwd)}]

\* rpm_source_package_filename: {name}-{version}.tar.gz
RPMSourcePackageFilename(h, pd, src) ==
  LET info == GetFilenameSafeProjectInformation(h, pd, src)
  IN  TarGz(info[1], info[2])

\* The file Download() returned is in the working directory, and
\* os.rename(source_package_filename, rpm_source_package_filename)
RenameForRPMBuild(r, h, pd, src) ==
  LET downloaded == [r EXCEPT !.fs = @ \cup {Resolve(SourceFilename(src), r.cwd)}]
  IN  Emit(Rename(downloaded, SourceFilename(src), RPMSourcePackageFilename(h, pd, src)),
           Event("py", "rename", TRUE))

\* A mutant of RenameBack: the name is restored only after a successful
\* rpmbuild.
RenameBackIfBuilt(r, h, pd, src) ==
  IF r.ret
    THEN Emit(Rename(r, RPMSourcePackageFilename(h, pd, src), SourceFilename(src)),
              Event("py", "rename back", TRUE))
    ELSE r

\* os.rename(rpm_source_package_filename, source_package_filename), after
\* the "if build_successful:" block
RenameBack(r, h, pd, src) ==
  Emit(Rename(r, RPMSourcePackageFilename(h, pd, src), SourceFilename(src)),
       Event("py", "rename back", TRUE))

\* ConfigureMakeRPMBuildHelper.Build and ConfigureMakeSRPMBuildHelper.Build:
\* the source package is renamed for rpmbuild and renamed back.
ConfigureMakeRPMBuild(r0, h, pd, src, hst) ==
  LET s1 == Then(Download(r0), LAMBDA r : {RenameForRPMBuild(r, h, pd, src)})
      s2 == Then(s1, BuildFromSourcePackage)
      s3 == ThenOk(s2, LAMBDA r : AfterRPMBuild(r, h, pd, src, hst))
  IN  ReturnResult(Then(s3, LAMBDA r : {RenameBack(r, h, pd, src)}))

\* BaseRPMBuildHelper._CopySourcePackageToRPMBuildSources
CopySourcePackageToRPMBuildSources(r, src, hst) ==
  [r EXCEPT !.fs = @ \cup {RPMBuildPath(hst) \o <<"/","S","O","U","R","C","E","S","/">> \o SourceFilename(src)}]

\* _GenerateSpecFile of SetupPyRPMBuildHelper and SetupPySRPMBuildHelper:
\* the helper's result is whether it returned a path.
GenerateSpecFile(r) ==
  LET g1 == ThenOk(Create(r), LAMBDA q : Generate(q, "GenerateWithSetupPy"))
  IN  ThenOk(g1, LAMBDA q : Generate(q, "RewriteSetupPyGeneratedFile"))

\* SetupPyRPMBuildHelper.Build and SetupPySRPMBuildHelper.Build
SetupPyRPMBuild(r0, h, pd, src, hst) ==
  LET s1 == Then(Download(r0), LAMBDA r : {CopySourcePackageToRPMBuildSources(r, src, hst)})
      s2 == ReturnFalseIfNot(Then(s1, GenerateSpecFile))
      s3 == Then(s2, LAMBDA r : BuildFromSpecFile(r, hst))
  IN  ReturnResult(ThenOk(s3, LAMBDA r : AfterRPMBuild(r, h, pd, src, hst)))

(***************************************************************************)
(* The lifecycle operation Build.                                          *)
(***************************************************************************)
\* The runs of Build(source_helper_object) of the class of h.
BuildRuns(h, pd, src, hst, files, c) ==
  LET r0 == NewRun(files, c, hst.environ)
  IN  CASE h.cls = "ConfigureMakeSourceBuildHelper" -> ConfigureMakeSourceBuild(r0, src)
        [] h.cls = "SetupPySourceBuildHelper" -> SetupPySourceBuild(r0, src)
        [] IsDPKGClass(h.cls) -> DPKGBuild(r0, h, pd, src)
        [] h.cls = "ConfigureMakeMSIBuildHelper" -> ConfigureMakeMSIBuild(r0, h, pd, src)
        [] h.cls = "SetupPyMSIBuildHelper" -> SetupPyMSIBuild(r0, h, pd, src)
        [] h.cls = "ConfigureMakeOSCBuildHelper" -> ConfigureMakeOSCBuild(r0, src)
        [] h.cls = "SetupPyOSCBuildHelper" -> SetupPyOSCBuild(r0, src)
        [] h.cls = "ConfigureMakePKGBuildHelper" -> ConfigureMakePKGBuild(r0, src)
        [] h.cls = "SetupPyPKGBuildHelper" -> SetupPyPKGBuild(r0, src)
        [] h.cls \in {"ConfigureMakeRPMBuildHelper", "ConfigureMakeSRPMBuildHelper"} ->
             ConfigureMakeRPMBuild(r0, h, pd, src, hst)
        [] h.cls \in {"SetupPyRPMBuildHelper", "SetupPySRPMBuildHelper"} ->
             SetupPyRPMBuild(r0, h, pd, src, hst)

\* The deepest working directory Build is entered in.
MaxCwdDepth == 1

\* Build(source_helper_object)
Build ==
  /\ helper # NoHelper
  /\ Len(cwd) < MaxCwdDepth
  /\ \E r \in BuildRuns(helper, project, source, host, fs, cwd) :
       /\ fs' = r.fs
       /\ cwd' = r.cwd
       /\ host' = [host EXCEPT !.environ = r.environ]
       /\ last' = [op |-> "Build", result |-> r.res, events |-> r.events,
                   raised |-> (r.res = "raise"), moved |-> r.moved,
                   kept |-> r.kept, replaced |-> r.replaced, known |-> r.known]
  /\ UNCHANGED <<project, source, helper>>

(***************************************************************************)
(* The lifecycle operation CheckBuildDependencies.  A package name is a     *)
(* string; an element of a Python list of names is a "str" entry when it   *)
(* is a string and a "list" entry when it is itself a list of one name.    *)
(***************************************************************************)
s_zlib == <<"z","l","i","b">>
s_fuse == <<"f","u","s","e">>
s_zeromq == <<"z","e","r","o","m","q">>
s_libcrypto == <<"l","i","b","c","r","y","p","t","o">>
s_sqlite == <<"s","q","l","i","t","e">>

\* DPKGBuildHelper._BUILD_DEPENDENCIES
DPKGBuildDependencies ==
  {<<"g","i","t">>,
   <<"b","u","i","l","d","-","e","s","s","e","n","t","i","a","l">>,
   <<"a","u","t","o","t","o","o","l","s","-","d","e","v">>,
   <<"a","u","t","o","c","o","n","f">>,
   <<"a","u","t","o","m","a","k","e">>,
   <<"a","u","t","o","p","o","i","n","t">>,
   <<"d","h","-","a","u","t","o","r","e","c","o","n","f",",">>,
   <<"l","i","b","t","o","o","l">>,
   <<"g","e","t","t","e","x","t">>,
   <<"f","l","e","x">>,
   <<"b","y","a","c","c">>,
   <<"d","e","b","h","e","l","p","e","r">>,
   <<"d","e","v","s","c","r","i","p","t","s">>,
   <<"d","p","k","g","-","d","e","v">>,
   <<"f","a","k","e","r","o","o","t">>,
   <<"q","u","i","l","t">>,
   <<"p","y","t","h","o","n","-","a","l","l">>,
   <<"p","y","t","h","o","n","-","a","l","l","-","d","e","v">>,
   <<"p","y","t","h","o","n","-","s","e","t","u","p","t","o","o","l","s">>,
   <<"p","y","t","h","o","n","3","-","a","l","l">>,
   <<"p","y","t","h","o","n","3","-","a","l","l","-","d","e","v">>,
   <<"p","y","t","h","o","n","3","-","s","e","t","u","p","t","o","o","l","s">>}

\* DPKGBuildHelper._BUILD_DEPENDENCY_PACKAGE_NAMES
DPKGBuildDependencyPackageNames ==
  (<<"b","z","i","p","2">> :> <<"l","i","b","b","z","2","-","d","e","v">>) @@
  (<<"f","u","s","e">> :> <<"l","i","b","f","u","s","e","-","d","e","v">>) @@
  (<<"l","i","b","c","r","y","p","t","o">> :> <<"l","i","b","s","s","l","-","d","e","v">>) @@
  (<<"s","q","l","i","t","e">> :> <<"l","i","b","s","q","l","i","t","e","3","-","d","e","v">>) @@
  (<<"z","e","r","o","m","q">> :> <<"l","i","b","z","m","q","3","-","d","e","v">>) @@
  (<<"z","l","i","b">> :> <<"z","l","i","b","1","g","-","d","e","v">>)

\* BaseRPMBuildHelper._BUILD_DEPENDENCIES
RPMBuildDependencies ==
  {<<"g","i","t">>,
   <<"b","i","n","u","t","i","l","s">>,
   <<"a","u","t","o","c","o","n","f">>,
   <<"a","u","t","o","m","a","k","e">>,
   <<"l","i","b","t","o","o","l">>,
   <<"g","e","t","t","e","x","t","-","d","e","v","e","l">>,
   <<"m","a","k","e">>,
   <<"p","k","g","c","o","n","f">>,
   <<"g","c","c">>,
   <<"g","c","c","-","c","+","+">>,
   <<"f","l","e","x">>,
   <<"b","y","a","c","c">>,
   <<"r","p","m","-","b","u","i","l","d">>,
   <<"p","y","t","h","o","n","2","-","d","a","t","e","u","t","i","l">>,
   <<"p","y","t","h","o","n","2","-","d","e","v","e","l">>,
   <<"p","y","t","h","o","n","2","-","s","e","t","u","p","t","o","o","l","s">>,
   <<"p","y","t","h","o","n","2","-","t","e","s","t">>,
   <<"p","y","t","h","o","n","3","-","d","a","t","e","u","t","i","l">>,
   <<"p","y","t","h","o","n","3","-","d","e","v","e","l">>,
   <<"p","y","t","h","o","n","3","-","s","e","t","u","p","t","o","o","l","s">>,
   <<"p","y","t","h","o","n","3","-","t","e","s","t">>}

\* BaseRPMBuildHelper._BUILD_DEPENDENCY_PACKAGE_NAMES
RPMBuildDependencyPackageNames ==
  (<<"b","z","i","p","2">> :> <<<<"b","z","i","p","2","-","d","e","v","e","l">>>>) @@
  (<<"f","u","s","e">> :> <<<<"f","u","s","e","-","d","e","v","e","l">>>>) @@
  (<<"l","i","b","c","r","y","p","t","o">> :> <<<<"o","p","e","n","s","s","l","-","d","e","v","e","l">>>>) @@
  (<<"p","y","t","e","s","t","-","r","u","n","n","e","r">> :> <<<<"p","y","t","h","o","n","2","-","p","y","t","e","s","t","-","r","u","n","n","e","r">>, <<"p","y","t","h","o","n","3","-","p","y","t","e","s","t","-","r","u","n","n","e","r">>>>) @@
  (<<"s","q","l","i","t","e">> :> <<<<"s","q","l","i","t","e","-","d","e","v","e","l">>>>) @@
  (<<"z","e","r","o","m","q">> :> <<<<"l","i","b","z","m","q","3","-","d","e","v","e","l">>>>) @@
  (<<"z","l","i","b">> :> <<<<"z","l","i","b","-","d","e","v","e","l">>>>)

StrEntry(name) == [kind |-> "str", text |-> name]
ListEntry(name) == [kind |-> "list", text |-> name]

\* _CheckIsInstalled(package_name): dpkg-query -s or rpm -qi exits 0
CheckIsInstalled(hst, package_name) == package_name \in hst.installed

\* A call that starts from a project definition without declared dependencies
NewCheckForgetsDeclared(pd, files, missing) ==
  [base |-> missing, missing |-> <<>>, queried |-> <<>>,
   project |-> [pd EXCEPT !.build_dependencies = <<>>],
   fs |-> files, raised |-> FALSE]

\* What is known of a CheckBuildDependencies call so far: the names missing
\* among _BUILD_DEPENDENCIES (a frozenset: their order is that of its
\* iteration), the entries appended for the declared dependencies, the
\* names the host was asked for in that loop, the project definition and
\* the files, and whether the call raised.
NewCheck(pd, files, missing) ==
  [base |-> missing, missing |-> <<>>, queried |-> <<>>, project |-> pd,
   fs |-> files, raised |-> FALSE]

\* The elements of a list of entries
Entries(list) == {list[i] : i \in DOMAIN list}

\* The loop of DPKGBuildHelper.CheckBuildDependencies over the declared
\* dependencies.  A name that is not in the table becomes the list [name]:
\* '{0:s}'.format of a list raises TypeError under Python 3 and gives the
\* text "[u'name']" under Python 2; either interpreter may run the helper.
RECURSIVE DPKGCheckDeclared(_, _, _, _)
DPKGCheckDeclared(c, dependencies, hst, python) ==
  IF dependencies = <<>> \/ c.raised THEN c
  ELSE LET name == Head(dependencies)
           mapped == name \in DOMAIN DPKGBuildDependencyPackageNames
           package_name == IF mapped THEN StrEntry(DPKGBuildDependencyPackageNames[name])
                           ELSE ListEntry(name)
           query == IF mapped THEN package_name.text
                    ELSE <<"[","u","'">> \o name \o <<"'","]">>
           checked == [c EXCEPT !.queried = Append(@, query),
                                !.missing = IF CheckIsInstalled(hst, query) THEN @
                                            ELSE Append(@, package_name)]
           appended == IF package_name \in Entries(c.project.dpkg_build_dependencies)
                         THEN checked
                         ELSE [checked EXCEPT !.project.dpkg_build_dependencies =
                                                Append(@, package_name)]
       IN  IF ~mapped /\ python = 3 THEN [c EXCEPT !.raised = TRUE]
           ELSE DPKGCheckDeclared(appended, Tail(dependencies), hst, python)

\* "for dependency in dependencies:" of BaseRPMBuildHelper: dependencies is
\* a list of names, or the declared name itself, whose elements are its
\* characters.
RECURSIVE RPMCheckEach(_, _, _)
RPMCheckEach(c, dependencies, hst) ==
  IF dependencies = <<>> THEN c
  ELSE LET dependency == Head(dependencies)
       IN  RPMCheckEach(
             [c EXCEPT !.queried = Append(@, dependency),
                       !.missing = IF CheckIsInstalled(hst, dependency) THEN @
                                   ELSE Append(@, StrEntry(dependency))],
             Tail(dependencies), hst)

\* The elements a for loop over the string `name` gives: its characters.
Characters(name) == [i \in DOMAIN name |-> <<name[i]>>]

\* The loop of BaseRPMBuildHelper.CheckBuildDependencies over the declared
\* dependencies
RECURSIVE RPMCheckDeclared(_, _, _)
RPMCheckDeclared(c, dependencies, hst) ==
  IF dependencies = <<>> THEN c
  ELSE LET name == Head(dependencies)
           each == IF name \in DOMAIN RPMBuildDependencyPackageNames
                     THEN RPMBuildDependencyPackageNames[name]
                     ELSE Characters(name)
       IN  RPMCheckDeclared(RPMCheckEach(c, each, hst), Tail(dependencies), hst)

\* The version of zlib the download helper finds
s_zlib_version == <<"1",".","2",".","1","1">>

\* ConfigureMakeMSIBuildHelper._SetupBuildDependencyZlib: zlib is downloaded
\* and extracted, and the directory renamed to zlib unless there is one;
\* download and extraction may fail.
SetupBuildDependencyZlib(c, cd) ==
  LET zlib == [project_name |-> s_zlib, version |-> s_zlib_version,
               filename |-> TarGz(s_zlib, s_zlib_version)]
      source_filename == Resolve(SourceFilename(zlib), cd)
      source_directory == Resolve(SourceDirectory(zlib), cd)
      downloaded == [c EXCEPT !.fs = @ \cup {source_filename}]
      created == [downloaded EXCEPT !.fs = @ \cup {source_directory}]
      renamed == IF ExistsFile([fs |-> created.fs, cwd |-> cd], s_zlib) THEN created
                 ELSE [created EXCEPT !.fs = (@ \ {source_directory})
                                               \cup {Resolve(s_zlib, cd)}]
  IN  {c, downloaded, renamed}

\* The loop of ConfigureMakeMSIBuildHelper.CheckBuildDependencies
RECURSIVE MSICheckDeclared(_, _, _)
MSICheckDeclared(C, dependencies, cd) ==
  IF dependencies = <<>> THEN C
  ELSE LET name == Head(dependencies)
           step(c) ==
             IF name \in {s_fuse, s_zeromq, s_libcrypto} THEN {c}
             ELSE IF name = s_zlib THEN SetupBuildDependencyZlib(c, cd)
             ELSE {[c EXCEPT !.missing = Append(@, StrEntry(name))]}
       IN  MSICheckDeclared(UNION {step(c) : c \in C}, Tail(dependencies), cd)

\* The list that holds an entry for every name of `dependencies` outside `ignored`
RECURSIVE EntriesOf(_, _)
EntriesOf(dependencies, ignored) ==
  IF dependencies = <<>> THEN <<>>
  ELSE (IF Head(dependencies) \in ignored THEN <<>> ELSE <<StrEntry(Head(dependencies))>>)
         \o EntriesOf(Tail(dependencies), ignored)

\* The outcomes of CheckBuildDependencies() of the class of h
CheckBuildDependenciesOutcomes(h, pd, hst, files, cd) ==
  LET declared == pd.build_dependencies
      plain == NewCheck(pd, files, {})
  IN  CASE IsDPKGClass(h.cls) ->
             {DPKGCheckDeclared(
                NewCheck(pd, files, {n \in DPKGBuildDependencies : ~CheckIsInstalled(hst, n)}),
                declared, hst, python) : python \in {2, 3}}
        [] IsRPMClass(h.cls) \/ IsSRPMClass(h.cls) ->
             {RPMCheckDeclared(
                NewCheck(pd, files, {n \in RPMBuildDependencies : ~CheckIsInstalled(hst, n)}),
                declared, hst)}
        [] h.cls = "ConfigureMakeMSIBuildHelper" ->
             MSICheckDeclared({plain}, declared, cd)
        [] h.cls = "SetupPyMSIBuildHelper" ->
             {[plain EXCEPT !.missing = EntriesOf(declared, {s_sqlite})]}
        [] IsOSCClass(h.cls) \/ IsPKGClass(h.cls) -> {plain}
        [] OTHER -> {[plain EXCEPT !.missing = EntriesOf(declared, {})]}

\* CheckBuildDependencies()
CheckBuildDependencies ==
  /\ helper # NoHelper
  /\ \E c \in CheckBuildDependenciesOutcomes(helper, project, host, fs, cwd) :
       /\ project' = c.project
       /\ fs' = c.fs
       /\ last' = [op |-> "CheckBuildDependencies",
                   result |-> IF c.raised THEN "raise" ELSE "list",
                   base |-> c.base, missing |-> c.missing, queried |-> c.queried,
                   raised |-> c.raised]
  /\ UNCHANGED <<source, host, helper, cwd>>

(***************************************************************************)
(* The factory on every project and host.                                  *)
(***************************************************************************)
s_foo == <<"f","o","o">>
s_v10 == <<"1",".","0">>

DefaultProject ==
  [build_system |-> "configure_make", architecture_dependent |-> TRUE,
   dpkg_name |-> s_empty, dpkg_source_name |-> s_empty, setup_name |-> s_empty,
   patches |-> <<>>, msi_prebuild |-> s_empty, python2_only |-> FALSE,
   build_dependencies |-> <<>>, dpkg_build_dependencies |-> <<>>]

DefaultSource == [project_name |-> s_foo, version |-> s_v10,
                  filename |-> TarGz(s_foo, s_v10)]

\* The same source helper when the file it downloads carries a status
\* indication in its name.
AlphaSource == [DefaultSource EXCEPT !.filename = <<"f","o","o","-","a","l","p","h","a","-","1",".","0",".","t","a","r",".","g","z">>]

\* Build systems a project definition may declare; the last two are not
\* supported by the factory.
BuildSystems == {"configure_make", "setup_py", "scons", ""}
\* Build targets a caller may request; the last two are in neither table.
RequestedTargets == BuildTargets \cup {"wheel", ""}

Machines == {s_i686, s_x86_64, s_x86, s_AMD64}
EnvValues == {"", "C:\\VS"}
Environments == UNION {[D -> EnvValues] : D \in SUBSET VSNames}

InitFactory ==
  /\ project \in {[DefaultProject EXCEPT !.build_system = b,
                                         !.architecture_dependent = a] :
                    b \in BuildSystems, a \in BOOLEAN}
  /\ source = DefaultSource
  /\ host \in [machine : Machines, home : {s_home},
               environ : {e \in Environments : \A n \in DOMAIN e : e[n] # ""},
               msvscpp_convert_exists : BOOLEAN, installed : {{}}]
  /\ helper = NoHelper
  /\ fs = {}
  /\ cwd = <<>>
  /\ last = NoOp

NextFactory == \E t \in RequestedTargets : NewBuildHelper(t)

SpecFactory == InitFactory /\ [][NextFactory]_vars

\* C1 (as stated): for every supported build system and target,
\* NewBuildHelper returns a helper: it neither returns None nor raises,
\* whatever the environment and the files of the host.
C1_AlwaysReturnsHelper ==
  (/\ last.op = "NewBuildHelper"
   /\ project.build_system \in {"configure_make", "setup_py"}
   /\ last.build_target \in BuildTargets)
  => last.result = "helper"

\* C1 (amended): for every supported pair NewBuildHelper never returns
\* None; it returns a helper of the class of the pair's table entry, except
\* that for (configure_make, msi) it raises RuntimeError exactly when no
\* Visual Studio variable is in the environment or msvscpp-convert.py is
\* missing while the selected version is not 2008.
C1_HelperOrDocumentedRaise ==
  (/\ last.op = "NewBuildHelper"
   /\ project.build_system \in {"configure_make", "setup_py"}
   /\ last.build_target \in BuildTargets)
  => LET msi == project.build_system = "configure_make" /\ last.build_target = "msi"
         noVS == \A n \in VSNames : n \notin DOMAIN host.environ
         newer == {"VS150COMNTOOLS", "VS140COMNTOOLS", "VS120COMNTOOLS",
                   "VS110COMNTOOLS", "VS100COMNTOOLS"}
         is2008 == /\ "VS90COMNTOOLS" \in DOMAIN host.environ
                   /\ newer \cap DOMAIN host.environ = {}
         mustRaise == msi /\ (noVS \/ (~is2008 /\ ~host.msvscpp_convert_exists))
     IN  /\ last.result # "None"
         /\ last.result = "raise" <=> mustRaise
         /\ last.result = "helper" =>
              helper.cls = (IF project.build_system = "configure_make"
                              THEN ConfigureMakeBuildHelperClasses
                              ELSE SetupPyBuildHelperClasses)[last.build_target]

\* C1 witness: a (configure_make, msi) request on a host with Visual Studio
\* 2010 and the convert script returned a helper.
C1_Witness ==
  /\ last.op = "NewBuildHelper"
  /\ last.build_target = "msi"
  /\ project.build_system = "configure_make"
  /\ last.result = "helper"
  /\ helper.version = "2010"

\* C2: NewBuildHelper returns None, without raising and without calling a
\* constructor, whenever the build system is neither configure_make nor
\* setup_py or the target is not a key of that system's table.
C2_UnsupportedReturnsNone ==
  (/\ last.op = "NewBuildHelper"
   /\ \/ project.build_system \notin {"configure_make", "setup_py"}
      \/ last.build_target \notin BuildTargets)
  => /\ last.result = "None"
     /\ ~last.constructor_called
     /\ helper = NoHelper

\* C2 witness: an unsupported build system with a supported target, on a
\* host where the msi constructor would raise, returned None.
C2_Witness ==
  /\ last.op = "NewBuildHelper"
  /\ project.build_system = "scons"
  /\ last.build_target = "msi"
  /\ host.environ = <<>>
  /\ last.result = "None"

s_python_foo == <<"p","y","t","h","o","n","-","f","o","o">>
s_v110 == <<"1","1",".","0">>
s_v20 == <<"2",".","0">>
s_ev20 == <<"1","!","2",".","0">>

s_libfoo == <<"l","i","b","f","o","o">>
FileProjectNames == {s_foo, s_python_foo}
FileVersions == {s_v10, s_v110, s_v20, s_ev20}

\* The most files of the project lying in the working directory at once.
MaxFiles == 3

LinuxHost == [machine |-> s_x86_64, home |-> s_home, environ |-> <<>>,
              msvscpp_convert_exists |-> FALSE, installed |-> {}]
WindowsHost == [machine |-> s_AMD64, home |-> s_home,
                environ |-> [n \in {"VS100COMNTOOLS"} |-> "C:\\VS"],
                msvscpp_convert_exists |-> TRUE, installed |-> {}]
HostOf(cls) == IF IsMSIClass(cls) THEN WindowsHost ELSE LinuxHost

\* The package the strategy of h names for version w of the project.
PackageOfVersion(h, pd, src, w) == TestedFilename(h, pd, [src EXCEPT !.version = w])

InitFiles ==
  /\ project \in {[DefaultProject EXCEPT !.build_system = b,
                                         !.architecture_dependent = a,
                                         !.python2_only = p, !.setup_name = n,
                                         !.dpkg_name = d] :
                    b \in {"configure_make", "setup_py"},
                    a \in BOOLEAN, p \in BOOLEAN, n \in {s_empty, s_coverage},
                    d \in {s_empty, s_libfoo}}
  /\ source \in {[project_name |-> n, version |-> v, filename |-> TarGz(n, v)] :
                   n \in FileProjectNames, v \in FileVersions}
  /\ \E t \in BuildTargets :
       /\ host = HostOf(SelectClass(project.build_system, t))
       /\ helper = Construct(SelectClass(project.build_system, t), project, host)
  /\ fs \in {F \in SUBSET ({PackageOfVersion(helper, project, source, w) :
                             w \in FileVersions} \ {<<>>}) :
               Cardinality(F) <= MaxFiles}
  /\ cwd = <<>>
  /\ last = NoOp

NextFiles == CheckBuildRequired \/ Clean

SpecFiles == InitFiles /\ [][NextFiles]_vars

\* {name}-{version}.{arch}{pySuffix}.msi
MSIFilename(name, version, architecture, suffix) ==
  name \o s_dash \o version \o s_dot \o architecture \o suffix \o <<".","m","s","i">>

\* C22 (as stated): for target msi under both build systems the filename
\* CheckBuildRequired tests is {name}-{version}.{arch}{pySuffix}.msi, with
\* the name of the project (or its filename-safe name), its sanitized
\* version, the helper's architecture and a suffix that is empty or -py2.7.
C22_MSIFilenameOfSanitizedVersion ==
  (last.op = "CheckBuildRequired" /\ IsMSIClass(helper.cls))
  => LET info == GetFilenameSafeProjectInformation(helper, project, source)
     IN  \E name \in {source.project_name, info[1]},
            version \in {MSIVersion(source.version), MSIVersion(info[2])},
            suffix \in {s_empty, <<"-","p","y","2",".","7">>} :
           last.filename = MSIFilename(name, version, helper.architecture, suffix)

\* C22 (amended): SetupPyMSIBuildHelper tests {name}-{version}.{arch}{pySuffix}.msi
\* with its filename-safe name, the sanitized version and the suffix -py2.7
\* exactly for an architecture dependent project other than coverage;
\* ConfigureMakeMSIBuildHelper tests {name}-python-{version}.1.{arch}-py2.7.msi
\* with the version as the source helper gives it.
C22_MSIFilenamePerBuildSystem ==
  last.op = "CheckBuildRequired"
  => /\ helper.cls = "SetupPyMSIBuildHelper"
          => LET info == GetFilenameSafeProjectInformation(helper, project, source)
             IN  last.filename
                   = MSIFilename(info[1], MSIVersion(info[2]), helper.architecture,
                                 IF project.architecture_dependent /\ info[1] # s_coverage
                                   THEN <<"-","p","y","2",".","7">> ELSE s_empty)
     /\ helper.cls = "ConfigureMakeMSIBuildHelper"
          => last.filename
               = MSIFilename(source.project_name \o <<"-","p","y","t","h","o","n">>,
                             source.version \o <<".","1">>, helper.architecture, <<"-","p","y","2",".","7">>)

\* ConfigureMakeMSIBuildHelper asked about foo 1.0 on a 64-bit host.
C22_Witness ==
  /\ last.op = "CheckBuildRequired"
  /\ helper.cls = "ConfigureMakeMSIBuildHelper"
  /\ source = DefaultSource
  /\ last.filename = <<"f","o","o","-","p","y","t","h","o","n","-","1",".","0",".","1",".","w","i","n","-","a","m","d","6","4","-","p","y","2",".","7",".","m","s","i">>

\* C6 (for the setup.py source dpkg strategy): Clean never removes the file
\* CheckBuildRequired tests for: if it exists before Clean it exists after,
\* so CheckBuildRequired returns the same before and after Clean.
C6_CleanKeepsCurrentArtifact ==
  (last.op = "Clean" /\ helper.cls = "SetupPySourceDPKGBuildHelper")
  => /\ TestedFilename(helper, project, source) \in last.before
          => TestedFilename(helper, project, source) \in fs
     /\ BuildRequired(helper, project, source, fs)
          = BuildRequired(helper, project, source, last.before)

\* C7 (for the configure/make dpkg strategy): after Clean no package of the
\* project built from a version other than the current one is left.
C7_CleanRemovesOtherVersions ==
  (last.op = "Clean" /\ helper.cls = "ConfigureMakeDPKGBuildHelper")
  => \A w \in FileVersions \ {source.version} :
       PackageOfVersion(helper, project, source, w) \notin fs

\* C8: within each strategy that tests a file, the file name
\* CheckBuildRequired tests is one that a pass of Clean lists (its glob
\* matches it) and treats as the current version's file (its expression of
\* file names to ignore matches it).
C8_SameNameInCheckAndClean ==
  (last.op = "CheckBuildRequired" /\ ~IsSourceClass(helper.cls))
  => LET passes == CleanPasses(helper, project, source, host)
     IN  \E i \in DOMAIN passes :
           /\ GlobMatches(passes[i].glob, last.filename)
           /\ RegexMatches(passes[i].ignore, last.filename)

\* C9 (for the setup.py strategies that test a file): for every version
\* beginning with "1!", the version in the file name CheckBuildRequired
\* tests is the version without the "1!".
C9_EpochRemovedEverywhere ==
  (/\ last.op = "CheckBuildRequired"
   /\ project.build_system = "setup_py"
   /\ ~IsSourceClass(helper.cls)
   /\ StartsWith(source.version, s_epoch))
  => last.version = SliceFrom(source.version, 2)

(***************************************************************************)
(* The MSI version of the setup.py MSI strategy on every version string.   *)
(***************************************************************************)
\* The longest project version.
\* The name N_V-1_A.deb
DebFilename(name, version, architecture) ==
  name \o <<"_">> \o version \o <<"-","1","_">> \o architecture \o <<".","d","e","b">>

\* C13 (as stated): CheckBuildRequired of the helper for target dpkg, of
\* either build system, returns False exactly when N_V-1_A.deb is in the
\* working directory, N the project name, V the project version and A the
\* helper's architecture.
C13_DebOfProjectNameTested ==
  (/\ last.op = "CheckBuildRequired"
   /\ helper.cls \in {"ConfigureMakeDPKGBuildHelper", "SetupPyDPKGBuildHelper"})
  => (~last.result
        <=> DebFilename(source.project_name, source.version, helper.architecture)
              \in View(fs, cwd))

\* C13 (amended): the configure/make helper tests N_V-1_A.deb.  The setup.py
\* helper tests P_W-1_A.deb: P is the dpkg_name of the project definition
\* when it has one, else N with "python-" in front unless N starts with it;
\* W is V without a leading "1!".
C13_DebFilenameTested ==
  (/\ last.op = "CheckBuildRequired"
   /\ helper.cls \in {"ConfigureMakeDPKGBuildHelper", "SetupPyDPKGBuildHelper"})
  => LET N == source.project_name
         V == source.version
         P == IF project.dpkg_name # <<>> THEN project.dpkg_name
              ELSE IF Len(N) >= 7 /\ SubSeq(N, 1, 7) = <<"p","y","t","h","o","n","-">> THEN N ELSE <<"p","y","t","h","o","n","-">> \o N
         W == IF Len(V) >= 2 /\ SubSeq(V, 1, 2) = <<"1","!">> THEN SubSeq(V, 3, Len(V)) ELSE V
         deb == IF helper.cls = "ConfigureMakeDPKGBuildHelper"
                  THEN DebFilename(N, V, helper.architecture)
                  ELSE DebFilename(P, W, helper.architecture)
     IN  ~last.result <=> deb \in View(fs, cwd)

\* CheckBuildRequired of the setup.py dpkg helper for project foo, version
\* 1!2.0, returning False because python-foo_2.0-1_amd64.deb is there.
C13_Witness ==
  /\ last.op = "CheckBuildRequired"
  /\ helper.cls = "SetupPyDPKGBuildHelper"
  /\ source.project_name = s_foo
  /\ source.version = s_ev20
  /\ ~last.result
  /\ <<"p","y","t","h","o","n","-","f","o","o","_","2",".","0","-","1","_","a","m","d","6","4",".","d","e","b">> \in fs

MaxVersionLen == 7

VersionCharacters == {"1", ".", "-"}

\* Digits separated by single "." or "-".
WellFormedVersion(v) ==
  /\ v[1] = "1"
  /\ v[Len(v)] = "1"
  /\ \A i \in 1..(Len(v) - 1) : v[i] = "1" \/ v[i + 1] = "1"

ProjectVersions ==
  {v \in UNION {[1..n -> VersionCharacters] : n \in 1..MaxVersionLen} :
     WellFormedVersion(v)}

InitVersion ==
  /\ project = [DefaultProject EXCEPT !.build_system = "setup_py"]
  /\ source \in {[project_name |-> n, version |-> v, filename |-> TarGz(n, v)] :
                   n \in {s_foo, s_dfvfs}, v \in ProjectVersions}
  /\ host = WindowsHost
  /\ helper = Construct(SelectClass("setup_py", "msi"), project, host)
  /\ fs \in SUBSET {PackageOfVersion(helper, project, source, source.version),
                    PackageOfVersion(helper, project, source, s_v20)}
  /\ cwd = <<>>
  /\ last = NoOp

NextVersion == CheckBuildRequired \/ Clean

SpecVersion == InitVersion /\ [][NextVersion]_vars

\* C10: the version in the MSI file name CheckBuildRequired tests contains
\* a dot, contains no hyphen and does not have four dot-separated segments.
C10_SanitizedVersionIsClean ==
  (last.op = "CheckBuildRequired" /\ helper.cls = "SetupPyMSIBuildHelper")
  => /\ Contains(last.version, ".")
     /\ ~Contains(last.version, "-")
     /\ SplitCount(last.version, ".") # 4

(***************************************************************************)
(* Build, with CheckBuildRequired and Clean around it, for every strategy. *)
(* The source provider, the commands and the files that are not packages   *)
(* answer either way.                                                      *)
(***************************************************************************)
s_patch == <<"f","o","o",".","p","a","t","c","h">>
PreBuildScripts == {s_empty, <<"p","r","e","b","u","i","l","d",".","p","s","1">>, <<"p","r","e","b","u","i","l","d",".","p","y">>, <<"p","r","e","b","u","i","l","d",".","s","h">>}

\* Environments of a Windows host: the Visual Studio found, its variable
\* empty or not, and the platform asked for.
BuildEnvironments ==
  {[n \in {v} |-> x] : v \in {"VS100COMNTOOLS", "VS90COMNTOOLS"}, x \in EnvValues}
    \cup {("Platform" :> p) @@ [n \in {v} |-> "C:\\VS"] :
            p \in {"x64", "ARM"}, v \in {"VS100COMNTOOLS", "VS90COMNTOOLS"}}
    \cup {[n \in {"VCINSTALLDIR"} |-> "C:\\VS"]}

BuildHosts(cls) ==
  IF cls = "ConfigureMakeMSIBuildHelper"
    THEN {[WindowsHost EXCEPT !.environ = e] : e \in BuildEnvironments}
    ELSE {HostOf(cls)}

BuildProjects(cls) ==
  IF IsMSIClass(cls)
    THEN {[DefaultProject EXCEPT !.patches = ps, !.msi_prebuild = s] :
            ps \in {<<>>, <<s_patch>>},
            s \in IF cls = "SetupPyMSIBuildHelper" THEN PreBuildScripts ELSE {s_empty}}
    ELSE {DefaultProject}

InitBuild ==
  /\ source \in {DefaultSource, AlphaSource}
  /\ \E b \in {"configure_make", "setup_py"}, t \in BuildTargets :
       LET cls == SelectClass(b, t)
       IN  /\ project \in {[pd EXCEPT !.build_system = b] : pd \in BuildProjects(cls)}
           /\ host \in BuildHosts(cls)
           /\ helper = Construct(cls, project, host)
  /\ fs = {}
  /\ cwd = <<>>
  /\ last = NoOp

NextBuild == Build \/ CheckBuildRequired \/ Clean

SpecBuild == InitBuild /\ [][NextBuild]_vars

\* The positions of the events of the last Build that are external commands.
Commands == {i \in DOMAIN last.events : last.events[i].k = "cmd"}
\* The positions where Download returned no file or Create no directory.
SourceFailures ==
  {i \in DOMAIN last.events : last.events[i].k \in {"download", "create"}
                                /\ ~last.events[i].ok}

\* C3 (as stated): in every Build, once an external command has exited with
\* a non-zero status no further external command is invoked by that call,
\* and the call returns False.
C3_NoCommandAfterFailedCommand ==
  last.op = "Build"
  => \A i \in Commands :
       ~last.events[i].ok
       => /\ \A j \in Commands : j <= i
          /\ last.result = "False"

\* C4 (as stated): whenever CheckBuildRequired, Build or Clean returns, the
\* working directory is the one the operation was entered in.
C4_WorkingDirectoryRestored ==
  [][(last'.op \in {"CheckBuildRequired", "Build", "Clean"} /\ ~last'.raised)
       => cwd' = cwd]_vars

\* C5 (as stated): when Download returns no file or Create returns no
\* directory, Build returns False and no external command is invoked at any
\* point of that call, neither before nor after the failing step.
C5_NoSourceNoCommand ==
  (last.op = "Build" /\ SourceFailures # {})
  => last.result = "False" /\ Commands = {}

\* C5 (amended): when Download returns no file or Create returns no
\* directory, Build returns False and no external command is invoked after
\* the failing step; none has been invoked before it either, except by the
\* setup.py osc strategy, which has run osc by the time it calls Create.
C5_NoSourceNoCommandAfter ==
  (last.op = "Build" /\ SourceFailures # {})
  => /\ last.result = "False"
     /\ \A i \in SourceFailures, j \in Commands :
          j < i /\ helper.cls = "SetupPyOSCBuildHelper" /\ last.events[i].k = "create"

\* The setup.py osc Build in which Create returned no directory after osc
\* had been run.
C5_Witness ==
  /\ last.op = "Build"
  /\ helper.cls = "SetupPyOSCBuildHelper"
  /\ last.result = "False"
  /\ \E i \in SourceFailures, j \in Commands : j < i /\ last.events[i].k = "create"

\* The external commands of the last Build, in the order they were invoked.
CommandsInvoked == SelectSeq(last.events, LAMBDA e : e.k = "cmd")

\* C12: for build system configure_make and target source, when Download
\* and Create succeed, Build invokes ./configure first and make second, both
\* in the extracted directory; make is invoked only after ./configure exited
\* with status 0; Build returns True exactly when both exited with status 0.
C12_ConfigureThenMake ==
  (/\ last.op = "Build"
   /\ helper.cls = "ConfigureMakeSourceBuildHelper"
   /\ SourceFailures = {})
  => LET c == CommandsInvoked
     IN  /\ Len(c) \in {1, 2}
         /\ c[1].name = "./configure" /\ c[1].dir = SourceDirectory(source)
         /\ Len(c) = 2 <=> c[1].ok
         /\ Len(c) = 2 => c[2].name = "make" /\ c[2].dir = SourceDirectory(source)
         /\ last.result \in {"True", "False"}
         /\ last.result = "True" <=> (Len(c) = 2 /\ c[1].ok /\ c[2].ok)

\* The configure/make source Build that returned True after both commands.
C12_Witness ==
  /\ last.op = "Build"
  /\ helper.cls = "ConfigureMakeSourceBuildHelper"
  /\ last.result = "True"
  /\ Len(CommandsInvoked) = 2
  /\ CommandsInvoked[2].name = "make"

(***************************************************************************)
(* CheckBuildDependencies of every strategy, on projects that declare up to *)
(* MaxDependencies dependencies, on hosts with some packages installed.     *)
(***************************************************************************)
MaxDependencies == 2

\* Declared dependencies: names of both tables, a name of one table whose
\* MSI helpers treat it apart, and a name of no table.
DependencyNames == {s_zlib, s_sqlite, s_libcrypto, s_foo}

RECURSIVE DependencyLists(_)
DependencyLists(n) ==
  IF n = 0 THEN {<<>>}
  ELSE DependencyLists(n - 1)
         \cup {Append(l, d) : l \in {m \in DependencyLists(n - 1) : Len(m) = n - 1},
                              d \in DependencyNames}

InstalledSets == SUBSET {<<"z","l","i","b","1","g","-","d","e","v">>, <<"z","l","i","b","-","d","e","v","e","l">>, s_foo}

InitDeps ==
  /\ source = DefaultSource
  /\ \E b \in {"configure_make", "setup_py"}, t \in BuildTargets :
       LET cls == SelectClass(b, t)
       IN  /\ project \in {[DefaultProject EXCEPT !.build_system = b,
                                                  !.build_dependencies = l] :
                             l \in DependencyLists(MaxDependencies)}
           /\ host \in {[HostOf(cls) EXCEPT !.installed = s] : s \in InstalledSets}
           /\ helper = Construct(cls, project, host)
  /\ fs = {}
  /\ cwd = <<>>
  /\ last = NoOp

NextDeps == CheckBuildDependencies

SpecDeps == InitDeps /\ [][NextDeps]_vars

PackageNameFor(cls, d) ==
  IF IsDPKGClass(cls)
    THEN IF d \in DOMAIN DPKGBuildDependencyPackageNames
           THEN DPKGBuildDependencyPackageNames[d] ELSE d
    ELSE IF d \in DOMAIN RPMBuildDependencyPackageNames
           THEN RPMBuildDependencyPackageNames[d][1] ELSE d

\* The entries of the names of `package_names` that hst has not installed
RECURSIVE MissingOf(_, _)
MissingOf(package_names, hst) ==
  IF package_names = <<>> THEN <<>>
  ELSE (IF Head(package_names) \in hst.installed THEN <<>>
        ELSE <<StrEntry(Head(package_names))>>)
         \o MissingOf(Tail(package_names), hst)

\* C15: in the dpkg and rpm CheckBuildDependencies every declared
\* dependency is queried once, under its name in the format's table or,
\* when the table has no entry for it, under its own name, and the returned
\* list holds exactly that name, as a string, for each one not installed.
C15_DeclaredQueriedByName ==
  (/\ last.op = "CheckBuildDependencies"
   /\ IsDPKGClass(helper.cls) \/ IsRPMClass(helper.cls) \/ IsSRPMClass(helper.cls))
  => LET package_names == [i \in DOMAIN project.build_dependencies |->
                             PackageNameFor(helper.cls, project.build_dependencies[i])]
     IN  /\ ~last.raised
         /\ last.queried = package_names
         /\ last.missing = MissingOf(package_names, host)

\* The strategies whose Build moves what it produced into the working
\* directory of the caller.
Relocates(cls) == IsMSIClass(cls) \/ IsRPMClass(cls) \/ IsSRPMClass(cls)

\* C16 (as stated): in the MSI, RPM and source RPM strategies a file that is
\* in the caller's working directory under the name of a produced artifact
\* is left in place by Build: no artifact is moved over it.
C16_ExistingFileLeftInPlace ==
  [][(last'.op = "Build" /\ Relocates(helper.cls))
     => last'.moved \cap fs = {} /\ last'.replaced = {}]_vars

\* C16 (amended): the MSI strategies leave a file that is there under the
\* name of the MSI in place and skip the move; the RPM and source RPM
\* strategies remove such a file and move the produced package in its place.
C16_KeptByMSIReplacedByRPM ==
  [][last'.op = "Build"
     => /\ IsMSIClass(helper.cls)
             => /\ last'.moved \cap fs = {}
                /\ last'.replaced = {}
                /\ last'.kept \subseteq fs \cap fs'
        /\ (IsRPMClass(helper.cls) \/ IsSRPMClass(helper.cls))
             => /\ last'.replaced = last'.moved \cap fs
                /\ last'.kept = {}
                /\ last'.moved \subseteq fs']_vars

\* An MSI Build that found the MSI of an earlier Build in place and left it.
C16_Witness ==
  /\ last.op = "Build"
  /\ IsMSIClass(helper.cls)
  /\ last.result = "True"
  /\ last.kept = {BuiltMSI(GetFilenameSafeProjectInformation(helper, project, source)[1],
                           helper, source)}
  /\ last.kept \subseteq fs

\* The commands of the last Build that wrote to build.log, in the order
\* they were invoked.
LoggingCommands == SelectSeq(last.events, LAMBDA e : e.log # "none")

\* C17: within one Build the first command that writes to build.log
\* truncates it and every later one appends, so that the log holds the
\* output of every logged command of this Build and of no earlier one.
C17_LogTruncatedOnceThenAppended ==
  last.op = "Build"
  => \A i \in DOMAIN LoggingCommands :
       LoggingCommands[i].log = (IF i = 1 THEN "truncate" ELSE "append")

\* The last Build looked for the file `filename` and did not find it.
FoundAbsent(filename) ==
  \E path \in DOMAIN last.known :
    /\ path[Len(path)] = filename
    /\ last.known[path] = FALSE

\* The last Build invoked the command `name`.
Invoked(name) == \E i \in Commands : last.events[i].name = name

\* C18: a Build that finds a required host tool missing returns False and
\* does not run it: with patch.exe at none of the known locations no patch
\* command is invoked and Build returns False; with MSBuild.exe absent no
\* build command is invoked and Build returns False.
C18_MissingToolReturnsFalse ==
  last.op = "Build"
  => /\ FoundAbsent(s_patch_exe)
          => last.result = "False" /\ ~Invoked("patch.exe")
     /\ FoundAbsent(<<"C",":","/","M","S","B","u","i","l","d",".","e","x","e">>)
          => last.result = "False" /\ ~Invoked("MSBuild.exe")

\* C19: every Build ends by returning True or False, whatever the project
\* definition declares and however its steps turn out; it never raises,
\* also not when the MSI pre-build script declared is neither a .ps1 nor a
\* py file.
C19_BuildReturnsTrueOrFalse ==
  last.op = "Build" => ~last.raised /\ last.result \in {"True", "False"}

\* The last Build looked for the file or directory `filename` and found it.
FoundPresent(filename) ==
  \E path \in DOMAIN last.known :
    /\ path[Len(path)] = filename
    /\ last.known[path] = TRUE

\* The last Build found the output of an earlier Build: the dist directory
\* of the ConfigureMake MSI strategy, or the .pkg of a PKG strategy, which
\* is there though pkgbuild was not invoked.
FoundEarlierOutput ==
  \/ /\ helper.cls = "ConfigureMakeMSIBuildHelper"
     /\ FoundPresent(<<"d","i","s","t">>)
  \/ /\ IsPKGClass(helper.cls)
     /\ source.project_name \o s_dash \o source.version \o <<".","p","k","g">> \in View(fs, cwd)
     /\ ~Invoked("pkgbuild")

\* C20: a Build that finds the output of an earlier Build in place, and in
\* which no download, extraction, generation or command fails and nothing
\* is raised, returns True.
C20_EarlierOutputTolerated ==
  (/\ last.op = "Build"
   /\ FoundEarlierOutput
   /\ ~last.raised
   /\ \A i \in DOMAIN last.events : last.events[i].ok)
  => last.result = "True"


\* C21: CheckBuildRequired is a pure check in every strategy: it changes
\* neither the files, the helper nor the project definition; for target
\* source it returns True in every state, also right after a Build that
\* returned True.
C21_CheckBuildRequiredPure ==
  [][last'.op = "CheckBuildRequired"
     => /\ fs' = fs /\ helper' = helper /\ project' = project
        /\ IsSourceClass(helper.cls) => last'.result = TRUE]_vars

\* A source helper asked right after its Build returned True.
C21_Witness ==
  /\ last.op = "CheckBuildRequired"
  /\ IsSourceClass(helper.cls)
  /\ last.after_build
  /\ last.result = TRUE


\* C23: the Visual Studio version a newly constructed
\* ConfigureMakeMSIBuildHelper selects from the environment is, after any
\* sequence of Build calls, the one the helper selected before them.
C23_SelectedVersionUnchanged ==
  (helper.cls = "ConfigureMakeMSIBuildHelper" /\ last.op = "Build")
  => VisualStudioVersion(host.environ) = helper.version


\* C24: in the OSC and PKG strategies, whose Build names the file it
\* creates, CheckBuildRequired right after a Build that returned True
\* returns False, whatever the name of the downloaded source file.
C24_NoBuildRequiredAfterBuild ==
  (/\ last.op = "CheckBuildRequired"
   /\ last.after_build
   /\ IsOSCClass(helper.cls) \/ IsPKGClass(helper.cls))
  => last.result = FALSE


(***************************************************************************)
(* CheckBuildRequired and Clean of the rpm and srpm strategies when the     *)
(* rpmbuild directory holds build directories and packages of two versions. *)
(***************************************************************************)
\* The build directory rpmbuild makes for version w of the project.
RPMBuildDirectory(h, pd, src, hst, w) ==
  LET info == GetFilenameSafeProjectInformation(h, pd, [src EXCEPT !.version = w])
  IN  RPMBuildPath(hst) \o <<"/","B","U","I","L","D","/">> \o info[1] \o s_dash \o info[2]

\* What the rpmbuild directory holds of version w of the project: for the
\* rpm helpers the build directory and the package below RPMS, for the
\* srpm helpers the package below SRPMS.
RPMBuildEntries(h, pd, src, hst, w) ==
  {BuiltRPM(h, pd, [src EXCEPT !.version = w], hst)}
    \cup (IF IsRPMClass(h.cls) THEN {RPMBuildDirectory(h, pd, src, hst, w)} ELSE {})

InitRPMFiles ==
  /\ project \in {[DefaultProject EXCEPT !.build_system = b] :
                    b \in {"configure_make", "setup_py"}}
  /\ source \in {[project_name |-> s_foo, version |-> v, filename |-> TarGz(s_foo, v)] :
                   v \in {s_v10, s_v20}}
  /\ host = LinuxHost
  /\ \E t \in {"rpm", "srpm"} :
       helper = Construct(SelectClass(project.build_system, t), project, host)
  /\ fs \in SUBSET UNION {RPMBuildEntries(helper, project, source, host, w)
                            \cup {PackageOfVersion(helper, project, source, w)} :
                          w \in {s_v10, s_v20}}
  /\ cwd = <<>>
  /\ last = NoOp

NextRPMFiles == CheckBuildRequired \/ Clean

SpecRPMFiles == InitRPMFiles /\ [][NextRPMFiles]_vars

\* C25: Clean of the rpm and srpm strategies removes only entries of
\* previous versions: what the rpmbuild directory holds (BUILD, RPMS/<arch>,
\* SRPMS) of the current project name and version is still there after
\* Clean.
C25_CurrentRPMBuildEntriesKept ==
  last.op = "Clean"
  => \A f \in RPMBuildEntries(helper, project, source, host, source.version) :
       f \in last.before => f \in fs


(***************************************************************************)
(* Clean of SetupPyDPKGBuildHelper on a working directory that holds the    *)
(* python- and the python3- packages of two versions of the project.        *)
(***************************************************************************)
\* The package python3-X of version w, for the dpkg package name python-X.
Python3PackageOfVersion(h, pd, src, w) ==
  LET info == GetFilenameSafeProjectInformation(h, pd, [src EXCEPT !.version = w])
  IN  s_python3_ \o SliceFrom(info[1], 7) \o s_us \o info[2] \o <<"-","1","_">>
        \o h.architecture \o <<".","d","e","b">>

InitPython3 ==
  /\ project \in {[DefaultProject EXCEPT !.build_system = "setup_py", !.python2_only = p] :
                    p \in BOOLEAN}
  /\ source \in {[project_name |-> n, version |-> v, filename |-> TarGz(n, v)] :
                   n \in FileProjectNames, v \in {s_v10, s_v20}}
  /\ host = LinuxHost
  /\ helper = Construct("SetupPyDPKGBuildHelper", project, host)
  /\ fs \in SUBSET UNION {{PackageOfVersion(helper, project, source, w),
                           Python3PackageOfVersion(helper, project, source, w)} :
                          w \in {s_v10, s_v20}}
  /\ cwd = <<>>
  /\ last = NoOp

NextPython3 == CheckBuildRequired \/ Clean

SpecPython3 == InitPython3 /\ [][NextPython3]_vars

\* C26: Clean of SetupPyDPKGBuildHelper, for a project that is not
\* python2-only with dpkg package name python-X, removes the python3-X
\* packages of the other versions and keeps the python3-X package of the
\* current version.
C26_OlderPython3PackagesRemoved ==
  (last.op = "Clean" /\ ~project.python2_only)
  => /\ ~last.raised
     /\ \A w \in {s_v10, s_v20} \ {source.version} :
          Python3PackageOfVersion(helper, project, source, w) \notin fs
     /\ Python3PackageOfVersion(helper, project, source, source.version) \in last.before
          => Python3PackageOfVersion(helper, project, source, source.version) \in fs


(***************************************************************************)
(* Clean of every strategy on a working directory that also holds the       *)
(* packages of another project, foo-bar, whose name starts with the name of *)
(* the project cleaned, foo.                                                *)
(***************************************************************************)
s_foo_bar == <<"f","o","o","-","b","a","r">>

\* The package the strategy of h names for version w of the project foo-bar.
NeighbourPackage(h, pd, src, w) ==
  TestedFilename(h, pd, [src EXCEPT !.project_name = s_foo_bar, !.version = w])

NeighbourPackages(h, pd, src) ==
  {NeighbourPackage(h, pd, src, w) : w \in {s_v10, s_v20}} \ {<<>>}

InitNeighbour ==
  /\ project \in {[DefaultProject EXCEPT !.build_system = b] :
                    b \in {"configure_make", "setup_py"}}
  /\ source \in {[project_name |-> s_foo, version |-> v, filename |-> TarGz(s_foo, v)] :
                   v \in {s_v10, s_v20}}
  /\ \E t \in BuildTargets :
       /\ host = HostOf(SelectClass(project.build_system, t))
       /\ helper = Construct(SelectClass(project.build_system, t), project, host)
  /\ fs \in SUBSET (NeighbourPackages(helper, project, source)
                      \cup ({PackageOfVersion(helper, project, source, w) :
                               w \in {s_v10, s_v20}} \ {<<>>}))
  /\ cwd = <<>>
  /\ last = NoOp

NextNeighbour == CheckBuildRequired \/ Clean

SpecNeighbour == InitNeighbour /\ [][NextNeighbour]_vars

\* C27: Clean for project foo removes only files of foo: a package of the
\* project foo-bar that is in the working directory before Clean is there
\* after it, in every strategy.
C27_NeighbourPackagesKept ==
  last.op = "Clean"
  => \A f \in NeighbourPackages(helper, project, source) :
       f \in last.before => f \in fs

(***************************************************************************)
(* The source package of the rpm builds of a configure and make project.   *)
(***************************************************************************)
\* Build of ConfigureMakeRPMBuildHelper or ConfigureMakeSRPMBuildHelper
\* returned after Download() returned a file.
RPMBuildOfDownloadReturned ==
  /\ last.op = "Build"
  /\ helper.cls \in {"ConfigureMakeRPMBuildHelper", "ConfigureMakeSRPMBuildHelper"}
  /\ last.result \in {"True", "False"}
  /\ \E i \in DOMAIN last.events : last.events[i].k = "download" /\ last.events[i].ok

\* C28: whenever Build of ConfigureMakeRPMBuildHelper or
\* ConfigureMakeSRPMBuildHelper returns after the download, whether rpmbuild
\* exited with 0 or not, the source package is in the working directory
\* under the filename Download() returned, and no file has the temporary
\* name {name}-{version}.tar.gz when that is another name.
C28_SourcePackageRenamedBack ==
  RPMBuildOfDownloadReturned =>
    /\ Resolve(SourceFilename(source), cwd) \in fs
    /\ RPMSourcePackageFilename(helper, project, source) # SourceFilename(source)
         => Resolve(RPMSourcePackageFilename(helper, project, source), cwd) \notin fs

\* Build returned False because rpmbuild failed, for a source package whose
\* downloaded name is not the temporary one.
C28_Witness ==
  /\ RPMBuildOfDownloadReturned
  /\ last.result = "False"
  /\ RPMSourcePackageFilename(helper, project, source) # SourceFilename(source)
  /\ \E i \in DOMAIN last.events : last.events[i].name = "rpmbuild" /\ ~last.events[i].ok
  /\ Resolve(SourceFilename(source), cwd) \in fs

(***************************************************************************)
(* The steps of a dpkg Build.                                              *)
(***************************************************************************)
\* The place of a command among the steps of a dpkg Build, 0 for a command
\* that is none of them.
DPKGStep(h, name) ==
  CASE name = DPKGPrepCommand(h) -> 1
    [] name = DPKGCommand(h) -> 2
    [] name = DPKGPostCommand(h) -> 3
    [] OTHER -> 0

\* The last Build invoked the command `name`, and it exited with 0.
Succeeded(name) ==
  \E i \in Commands : last.events[i].name = name /\ last.events[i].ok

\* The last Build asked whether the file `filename` exists.
Looked(filename) == FoundPresent(filename) \/ FoundAbsent(filename)

\* C29: in every dpkg Build that returns, the external commands are the
\* prepare script, the build tool and the finalize script, each at most once
\* and in that order; a script is run exactly when Build found its file; the
\* build tool runs only after the prepare step succeeded (its script absent,
\* or exited with 0); the finalize script runs only after the build tool
\* exited with 0; and Build returns True exactly when it came to the prepare
\* step and every command it ran exited with 0.
C29_DPKGBuildSteps ==
  (/\ last.op = "Build"
   /\ IsDPKGClass(helper.cls)
   /\ last.result \in {"True", "False"})
  => /\ \A i \in Commands : DPKGStep(helper, last.events[i].name) > 0
     /\ \A i, j \in Commands :
          i < j => DPKGStep(helper, last.events[i].name) < DPKGStep(helper, last.events[j].name)
     /\ Invoked(DPKGPrepCommand(helper)) <=> FoundPresent(DPKGPrepScript(helper))
     /\ Invoked(DPKGPostCommand(helper)) <=> FoundPresent(DPKGPostScript(helper))
     /\ Invoked(DPKGCommand(helper))
          => \/ FoundAbsent(DPKGPrepScript(helper))
             \/ Succeeded(DPKGPrepCommand(helper))
     /\ Looked(DPKGPostScript(helper)) => Succeeded(DPKGCommand(helper))
     /\ last.result = "True"
          <=> /\ Looked(DPKGPrepScript(helper))
              /\ \A i \in Commands : last.events[i].ok

\* A Build that returned True without a prepare script, and ran the build
\* tool and then the finalize script.
C29_Witness ==
  /\ last.op = "Build"
  /\ IsDPKGClass(helper.cls)
  /\ last.result = "True"
  /\ FoundAbsent(DPKGPrepScript(helper))
  /\ Succeeded(DPKGCommand(helper))
  /\ Succeeded(DPKGPostCommand(helper))

(***************************************************************************)
(* The osc commands of an OSC Build.                                       *)
(***************************************************************************)
\* spec_filename of the two OSC Build methods
OSCSpecFilename(h, src) ==
  (IF h.cls = "SetupPyOSCBuildHelper"
      /\ StartsWith(src.project_name, s_python_)
      /\ src.project_name # <<"p","y","t","h","o","n","-","g","f","l","a","g","s">>
     THEN SliceFrom(src.project_name, 7) ELSE src.project_name) \o <<".","s","p","e","c">>

\* The positions of the osc add of the spec file: the one that follows the
\* step that writes the spec file into the package directory.
SpecFileAdds ==
  {i \in Commands :
     /\ last.events[i].name = "osc add"
     /\ \E j \in 1..(i - 1) :
          last.events[j].name \in {"tar", "RewriteSetupPyGeneratedFileForOSC"}}

\* The positions of osc commit
Commits == {i \in Commands : last.events[i].name = "osc commit"}

\* C30: in a Build of either OSC helper osc commit is invoked at most once
\* and no external command follows it; it is invoked only when every
\* external command before it exited with 0, among them osc checkout or osc
\* update, osc meta pkg when the package directory was absent, and every
\* osc add; and the spec file is passed to osc add only when Build found it
\* absent from the package directory before writing it.
C30_OSCCommitLast ==
  (last.op = "Build" /\ helper.cls \in {"ConfigureMakeOSCBuildHelper", "SetupPyOSCBuildHelper"})
  => /\ Cardinality(Commits) <= 1
     /\ \A i \in Commits :
          /\ \A j \in Commands : j <= i /\ (j < i => last.events[j].ok)
          /\ Succeeded("osc checkout") \/ Succeeded("osc update")
          /\ FoundAbsent(source.project_name) => Succeeded("osc meta pkg")
          /\ Succeeded("osc add") \/ ~Invoked("osc add")
     /\ SpecFileAdds # {} => FoundAbsent(OSCSpecFilename(helper, source))

\* A Build that created the package, added the source package and the spec
\* file, and committed.
C30_Witness ==
  /\ last.op = "Build"
  /\ helper.cls \in {"ConfigureMakeOSCBuildHelper", "SetupPyOSCBuildHelper"}
  /\ Commits # {}
  /\ FoundAbsent(source.project_name)
  /\ Succeeded("osc meta pkg")
  /\ SpecFileAdds # {}
  /\ last.result = "True"

====
